---------------------------- MODULE Spec2Model ----------------------------
(***************************************************************************)
(* A model of the excel-handler application: the Workflow 4 pipeline       *)
(* (workflow4.py), the region parser and the request handlers (views.py),  *)
(* and the extraction helpers they call.                                   *)
(*                                                                         *)
(* Conventions.                                                            *)
(*  - Text is a TLA+ string; the CJK character U+6708 ("month") is written *)
(*    "#" because the module is ASCII.                                     *)
(*  - A spreadsheet cell is a record: B (blank, pandas NaN), T(s) (text)   *)
(*    or a number [t |-> "n", m, e] standing for m / 10^e with int telling *)
(*    whether the cell is an integer cell.                                 *)
(*  - Arithmetic on cell values is exact (rationals num/den); the code's   *)
(*    binary floating point is not modelled.                               *)
(***************************************************************************)
EXTENDS Integers, Sequences, FiniteSets, TLC

VARIABLES
    nzFrame,    \* _normalize_input_dataframe: the sheet handed in (df)
    nzOut,      \* _normalize_input_dataframe: its outcome
    fcIn,       \* _build_forecast_tables: the normalized table handed in
    fcTie,      \* _build_forecast_tables: the order the sort left equal months in
    fcOut,      \* _build_forecast_tables: its outcome
    rgSheet,    \* parse_excel_regions: the sheet handed in
    rgOut,      \* parse_excel_regions: the dict it returned
    fnCall,     \* a helper function called on its own: its name and arguments
    fnOut,      \* that call's outcome
    uploads,    \* the UploadedExcelFile rows, in id order
    snapshots,  \* the ProcessedData rows, in id order
    processed,  \* the files uploads/processed/processed_<id>_<timestamp>.xlsx
    finals,     \* the files uploads/processed/final_output_<timestamp>.xlsx
    charts,     \* the two files of static/charts
    clock,      \* datetime.now(), in seconds
    stamp,      \* the st_mtime the next file write leaves
    reqs        \* the requests received, each at its place in its handler

pureVars == <<nzFrame, nzOut, fcIn, fcTie, fcOut, rgSheet, rgOut, fnCall, fnOut>>

webVars == <<uploads, snapshots, processed, finals, charts, clock, stamp, reqs>>

vars == <<pureVars, webVars>>

None == [t |-> "none"]

\* the member of a one-element set; in Only({e(v) : v \in {x}}) the value x is
\* computed once and e uses it as v
Only(S) == CHOOSE x \in S : TRUE

(***************************************************************************)
(* Python string operations                                                *)
(***************************************************************************)
UpperAlpha == "ABCDEFGHIJKLMNOPQRSTUVWXYZ"
LowerAlpha == "abcdefghijklmnopqrstuvwxyz"
DigitAlpha == "0123456789"

CharAt(s, i) == SubSeq(s, i, i)

\* The 1-based position of character c in alphabet, 0 when absent.
IndexIn(c, alphabet) ==
    LET hits == {i \in 1..Len(alphabet) : CharAt(alphabet, i) = c}
    IN IF hits = {} THEN 0 ELSE CHOOSE i \in hits : \A j \in hits : i <= j

\* each upper-case letter's lower-case letter
LowerMap ==
    [c \in {CharAt(UpperAlpha, i) : i \in 1..Len(UpperAlpha)} |->
        CharAt(LowerAlpha, IndexIn(c, UpperAlpha))]

LowerChar(c) == IF c \in DOMAIN LowerMap THEN LowerMap[c] ELSE c

RECURSIVE LowerBetween(_, _, _)
\* the characters i..j of s in lower case, one half after the other
LowerBetween(s, i, j) ==
    IF i > j THEN ""
    ELSE IF i = j THEN LowerChar(CharAt(s, i))
    ELSE LowerBetween(s, i, (i + j) \div 2) \o LowerBetween(s, (i + j) \div 2 + 1, j)

\* str.lower()
Lower(s) == LowerBetween(s, 1, Len(s))

IsSpace(c) == c = " "

\* str.strip()
Strip(s) ==
    LET keep == {i \in 1..Len(s) : ~IsSpace(CharAt(s, i))}
    IN IF keep = {} THEN ""
       ELSE LET lo == CHOOSE i \in keep : \A j \in keep : i <= j
                hi == CHOOSE i \in keep : \A j \in keep : j <= i
            IN SubSeq(s, lo, hi)

\* t in s
Contains(s, t) ==
    \E i \in 1..(Len(s) - Len(t) + 1) : SubSeq(s, i, i + Len(t) - 1) = t

\* s.endswith(t)
EndsWith(s, t) ==
    Len(s) >= Len(t) /\ SubSeq(s, Len(s) - Len(t) + 1, Len(s)) = t

RECURSIVE RemoveCharBetween(_, _, _, _)
\* the characters i..j of s other than c, one half after the other
RemoveCharBetween(s, c, i, j) ==
    IF i > j THEN ""
    ELSE IF i = j THEN (IF CharAt(s, i) = c THEN "" ELSE CharAt(s, i))
    ELSE RemoveCharBetween(s, c, i, (i + j) \div 2)
             \o RemoveCharBetween(s, c, (i + j) \div 2 + 1, j)

\* s.replace(c, "") for a single character c
RemoveChar(s, c) == RemoveCharBetween(s, c, 1, Len(s))

\* str.isdigit()
IsDigits(s) ==
    Len(s) > 0 /\ \A i \in 1..Len(s) : IndexIn(CharAt(s, i), DigitAlpha) > 0

RECURSIVE DigitsValue(_, _)
DigitsValue(s, n) ==
    IF n = 0 THEN 0
    ELSE 10 * DigitsValue(s, n - 1) + (IndexIn(CharAt(s, n), DigitAlpha) - 1)

\* int(s) for a string of digits
IntOfDigits(s) == DigitsValue(s, Len(s))

RECURSIVE IntStr(_)
\* str(n) for an integer n >= 0
IntStr(n) ==
    IF n < 10 THEN CharAt(DigitAlpha, n + 1)
    ELSE IntStr(n \div 10) \o CharAt(DigitAlpha, (n % 10) + 1)

RECURSIVE Pow10(_)
Pow10(e) == IF e = 0 THEN 1 ELSE 10 * Pow10(e - 1)

RECURSIVE PadFrac(_, _)
\* the e digits of a fraction part f < 10^e, zero-padded on the left
PadFrac(f, e) ==
    IF e = 0 THEN "" ELSE PadFrac(f \div 10, e - 1) \o CharAt(DigitAlpha, (f % 10) + 1)

(***************************************************************************)
(* Cells                                                                   *)
(***************************************************************************)
B == [t |-> "b"]
T(s) == [t |-> "s", s |-> s]
\* an integer cell (Python int / int64)
I(n) == [t |-> "n", m |-> n, e |-> 0, int |-> TRUE]
\* a float cell m / 10^e (e = 0: a float with an integral value)
F(m, e) == [t |-> "n", m |-> m, e |-> e, int |-> FALSE]

\* a float cell that holds inf, -inf or nan
NonFinite(x) == [t |-> "x", x |-> x]

IsBlank(c) == c.t = "b"
IsText(c) == c.t = "s"
IsNum(c) == c.t = "n"

\* str(x) of a number cell; as_float: the value was upcast to float64
NumStr(c, as_float) ==
    LET sign == IF c.m < 0 THEN "-" ELSE ""
        a == IF c.m < 0 THEN -c.m ELSE c.m
        whole == a \div Pow10(c.e)
        frac == a % Pow10(c.e)
    IN IF c.int /\ ~as_float THEN sign \o IntStr(a)
       ELSE IF c.e = 0 THEN sign \o IntStr(a) \o ".0"
       ELSE sign \o IntStr(whole) \o "." \o PadFrac(frac, c.e)


\* A parsed number, or None: the value m / 10^e of a decimal numeral such as
\* "12", "-3.5" or ".5" (float(text) for the plain decimal numerals; exponent
\* forms, "inf", "nan" and digit separators are outside the modelled vocabulary).
ParseDigits(neg, ip, fp) ==
    IF ~IsDigits(ip \o fp) THEN None
    ELSE F(IF neg THEN -IntOfDigits(ip \o fp) ELSE IntOfDigits(ip \o fp), Len(fp))

\* the numeral s without its sign: at most one point
ParseUnsigned(neg, s) ==
    LET dots == {i \in 1..Len(s) : CharAt(s, i) = "."}
    IN IF Cardinality(dots) > 1 THEN None
       ELSE IF dots = {} THEN ParseDigits(neg, s, "")
       ELSE Only({ParseDigits(neg, SubSeq(s, 1, dot - 1), SubSeq(s, dot + 1, Len(s))) :
                  dot \in dots})

ParseStripped(s0) ==
    IF Len(s0) > 0 /\ CharAt(s0, 1) \in {"-", "+"}
    THEN ParseUnsigned(CharAt(s0, 1) = "-", SubSeq(s0, 2, Len(s0)))
    ELSE ParseUnsigned(FALSE, s0)

ParseDecimal(text) == Only({ParseStripped(s0) : s0 \in {Strip(text)}})

(***************************************************************************)
(* Exact arithmetic on cell values: a value is num / den with den > 0      *)
(***************************************************************************)
Val(c) == [n |-> c.m, d |-> Pow10(c.e)]
ValEq(a, b) == a.n * b.d = b.n * a.d
ValLess(a, b) == a.n * b.d < b.n * a.d
ValAdd(a, b) == [n |-> a.n * b.d + b.n * a.d, d |-> a.d * b.d]
ValMul(a, b) == [n |-> a.n * b.n, d |-> a.d * b.d]
ValDivInt(a, k) == [n |-> a.n, d |-> a.d * k]
ValZero == [n |-> 0, d |-> 1]
ValMax0(a) == IF a.n < 0 THEN ValZero ELSE a

RECURSIVE ValSum(_)
ValSum(seq) == IF seq = <<>> THEN ValZero ELSE ValAdd(Head(seq), ValSum(Tail(seq)))

\* round(x, k) as an integer count of 10^-k units, ties to the even neighbour
RoundTo(a, k) ==
    LET p == a.n * Pow10(k)
        q == p \div a.d
        r == p % a.d
    IN IF 2 * r < a.d THEN q
       ELSE IF 2 * r > a.d THEN q + 1
       ELSE IF q % 2 = 0 THEN q ELSE q + 1

(***************************************************************************)
(* Python floats.  A float is an exact value num / den with den > 0, or    *)
(* one of the three values that are not finite, written with den = 0.      *)
(***************************************************************************)
PosInf == [n |-> 1, d |-> 0]
NegInf == [n |-> -1, d |-> 0]
NaN == [n |-> 0, d |-> 0]

\* not math.isnan(x) and not math.isinf(x)
IsFinite(x) == x.d # 0

FloatNeg(x) == [n |-> -x.n, d |-> x.d]

\* x + y
FloatAdd(x, y) ==
    IF IsFinite(x) /\ IsFinite(y) THEN ValAdd(x, y)
    ELSE IF x = NaN \/ y = NaN THEN NaN
    ELSE IF ~IsFinite(x) /\ ~IsFinite(y) THEN (IF x = y THEN x ELSE NaN)
    ELSE IF IsFinite(x) THEN y
    ELSE x

RECURSIVE FloatSum(_)
\* sum(values), from the left
FloatSum(values) ==
    IF values = <<>> THEN ValZero
    ELSE FloatAdd(FloatSum(SubSeq(values, 1, Len(values) - 1)), values[Len(values)])

\* the words float() reads as values that are not finite, sign aside
InfWords == {"inf", "infinity"}

\* the word after a sign, in lower case
Unsigned(word) ==
    IF Len(word) > 0 /\ CharAt(word, 1) \in {"-", "+"}
    THEN SubSeq(word, 2, Len(word)) ELSE word

\* float(text) of a str: a decimal numeral or, in any case and with a sign,
\* inf, infinity or nan; None for the ValueError.  (Exponent forms and digit
\* separators are outside the modelled vocabulary.)
FloatOfText(text) ==
    Only({IF Unsigned(word) \in InfWords
          THEN (IF CharAt(word, 1) = "-" THEN NegInf ELSE PosInf)
          ELSE IF Unsigned(word) = "nan" THEN NaN
          ELSE Only({IF num = None THEN None ELSE Val(num) :
                     num \in {ParseDecimal(word)}}) :
          word \in {Lower(Strip(text))}})

(***************************************************************************)
(* workflow4.py: month names and header keys                               *)
(***************************************************************************)
MONTH_NAMES ==
    <<"January", "February", "March", "April", "May", "June", "July",
      "August", "September", "October", "November", "December">>

\* MONTH_VARIANTS without its digit keys, which MonthVariant adds
MonthWords ==
    << {"jan", "january"}, {"feb", "february"}, {"mar", "march"},
       {"apr", "april"}, {"may"}, {"jun", "june"}, {"jul", "july"},
       {"aug", "august"}, {"sep", "sept", "september"}, {"oct", "october"},
       {"nov", "november"}, {"dec", "december"} >>

\* MONTH_VARIANTS.get(text, 0): the month number of a variant key, 0 if none
MonthVariant(text) ==
    LET hits == {k \in 1..12 :
                    \/ text \in MonthWords[k]
                    \/ text = IntStr(k)
                    \/ (k < 10 /\ text = "0" \o IntStr(k))}
    IN IF hits = {} THEN 0 ELSE CHOOSE k \in hits : TRUE

PRODUCT_KEYS ==
    <<"product", "product_name", "item", "item_name", "line", "sku", "code",
      "<hinmoku>">>
MONTH_KEYS == <<"month", "month_name", "period", "#">>
DEMAND_KEYS ==
    <<"demand", "actual_demand", "usage", "consumption", "<shukka>", "<juyou>">>
CONSUMPTION_KEYS ==
    <<"per_unit_consumption", "per unit consumption", "per_unit",
      "unit_consumption", "consumption_per_unit", "raw_material_per_unit",
      "unit usage">>

\* _canonical_month applied to text: the month name, or "" for None
MonthOfKey(text) ==
    IF MonthVariant(text) > 0 THEN MONTH_NAMES[MonthVariant(text)]
    ELSE IF IsDigits(text) /\ IntOfDigits(text) \in 1..12
         THEN MONTH_NAMES[IntOfDigits(text)]
    ELSE ""

\* text.replace("#", "") for a text that ends with it
DropMonthSign(text) == IF EndsWith(text, "#") THEN RemoveChar(text, "#") ELSE text

CanonicalMonthText(value) ==
    Only({IF t0 = "" THEN ""
          ELSE Only({MonthOfKey(t2) : t2 \in {RemoveChar(DropMonthSign(t0), ".")}}) :
          t0 \in {Lower(Strip(value))}})

\* str(value) of a cell; as_float: a number that pandas holds as float64
CellStr(c, as_float) ==
    IF IsText(c) THEN c.s ELSE IF IsNum(c) THEN NumStr(c, as_float) ELSE "nan"

\* _canonical_month of a cell value
CanonicalMonth(c, as_float) ==
    IF IsBlank(c) THEN "" ELSE CanonicalMonthText(CellStr(c, as_float))

\* _month_index of a month label: 1..12, or 0 for None
MonthIndex(label) ==
    Only({IF canonical = "" THEN 0
          ELSE CHOOSE k \in 1..12 : MONTH_NAMES[k] = canonical :
          canonical \in {CanonicalMonthText(label)}})

(***************************************************************************)
(* A data frame: cols, the header names, and rows, each a tuple of cells   *)
(***************************************************************************)
NCols(frame) == Len(frame.cols)
NRows(frame) == Len(frame.rows)

\* the pandas dtype of column j
ColDtype(frame, j) ==
    LET cells == {frame.rows[i][j] : i \in 1..NRows(frame)}
    IN IF \E c \in cells : IsText(c) THEN "object"
       ELSE IF \E c \in cells : IsBlank(c) \/ ~c.int THEN "float"
       ELSE "int"

\* whether df[column] holds the number cells of column j as floats
ColAsFloat(frame, j) == ColDtype(frame, j) = "float"

\* whether the row Series that iterrows() yields holds column j as floats:
\* a frame of numeric columns only is upcast to one common dtype
RowAsFloat(frame, j) ==
    IF \E k \in 1..NCols(frame) : ColDtype(frame, k) = "object"
    THEN ColAsFloat(frame, j)
    ELSE \E k \in 1..NCols(frame) : ColAsFloat(frame, k)

MinOf(S) == CHOOSE i \in S : \A j \in S : i <= j
MaxOf(S) == CHOOSE i \in S : \A j \in S : j <= i

\* whether header text col matches one of the candidate keys
MatchesKey(col, candidates) ==
    \E col_lower \in {Lower(Strip(col))} :
        \E k \in 1..Len(candidates) :
            \E key \in {Lower(candidates[k])} :
                col_lower = key \/ Contains(col_lower, key)

FindColumnFirst(cols, candidates) ==
    Only({IF hits = {} THEN 0 ELSE MinOf(hits) :
             hits \in {{j \in 1..Len(cols) : MatchesKey(cols[j], candidates)}}})

\* _find_column: the index of the first matching column, 0 for None
FindColumn(cols, candidates) == FindColumnFirst(cols, candidates)

\* the first 4 non-empty sample values of column j, as text
SampleValues(frame, j) ==
    LET filled == {i \in 1..NRows(frame) : ~IsBlank(frame.rows[i][j])}
        first4 == {i \in filled : Cardinality({k \in filled : k < i}) < 4}
    IN [i \in first4 |-> Strip(CellStr(frame.rows[i][j], ColAsFloat(frame, j)))]

\* the month a column stands for, "" when it is no month column
MonthOfSamples(samples) ==
    Only({IF hits = {} THEN "" ELSE CanonicalMonthText(samples[MinOf(hits)]) :
          hits \in {{i \in DOMAIN samples : CanonicalMonthText(samples[i]) # ""}}})

MonthOfColumn(frame, j) ==
    Only({IF by_header # "" THEN by_header
          ELSE Only({MonthOfSamples(samples) : samples \in {SampleValues(frame, j)}}) :
          by_header \in {CanonicalMonthText(frame.cols[j])}})

\* _detect_month_columns: column index -> month name, "" for the others
DetectMonthColumns(frame) ==
    [j \in 1..NCols(frame) |-> MonthOfColumn(frame, j)]

\* pd.to_numeric(..., errors="coerce") of one cell: a value, or None for NaN
ValueOrNone(parsed) == IF parsed = None THEN None ELSE Val(parsed)

ToNumeric(c) ==
    IF IsNum(c) THEN Val(c)
    ELSE IF IsText(c) THEN Only({ValueOrNone(parsed) : parsed \in {ParseDecimal(c.s)}})
    ELSE None

\* _coerce_number: a value, or None
CoerceNumber(c) ==
    IF IsBlank(c) THEN None
    ELSE IF IsNum(c) THEN Val(c)
    ELSE Only({ValueOrNone(parsed) : parsed \in {ParseDecimal(RemoveChar(c.s, ","))}})

RECURSIVE SeqFilterIdx(_, _)
\* the members of a finite set of integers, ascending
SeqFilterIdx(S, acc) ==
    IF S = {} THEN acc
    ELSE SeqFilterIdx(S \ {MinOf(S)}, Append(acc, MinOf(S)))

Ascending(S) == SeqFilterIdx(S, <<>>)

(***************************************************************************)
(* workflow4.py: _normalize_input_dataframe                                *)
(***************************************************************************)
ValueError(msg) == [status |-> "ValueError", msg |-> msg, table |-> <<>>]
OtherError(kind) == [status |-> kind, msg |-> "", table |-> <<>>]
Returned(table) == [status |-> "ok", msg |-> "", table |-> table]

\* the column a header ends up named after frame.rename(columns=rename_map):
\* a later key of the dict literal overrides an earlier equal one
RenamedCols(cols, product_col, month_col, demand_col, consumption_col) ==
    [j \in 1..Len(cols) |->
        IF j = consumption_col THEN "per_unit_consumption"
        ELSE IF j = demand_col THEN "demand"
        ELSE IF j = month_col THEN "month"
        ELSE IF j = product_col THEN "product"
        ELSE cols[j]]

LongTargets == <<"product", "month", "demand", "per_unit_consumption">>

\* the long (tidy) layout branch, lines 185-209
LongMonth(frame, mj, i) ==
    Only({IF canonical # "" THEN canonical
          ELSE CellStr(frame.rows[i][mj], ColAsFloat(frame, mj)) :
          canonical \in {CanonicalMonth(frame.rows[i][mj], ColAsFloat(frame, mj))}})

\* lines 197-204: the rows that dropna and the numeric coercion keep
LongKept(frame, pj, mj, dj, cj) ==
    {i \in 1..NRows(frame) :
        /\ \A j \in {pj, mj, dj, cj} : ~IsBlank(frame.rows[i][j])
        /\ ToNumeric(frame.rows[i][dj]) # None
        /\ ToNumeric(frame.rows[i][cj]) # None}

LongRecord(frame, pj, mj, dj, cj, i) ==
    [product |-> Strip(CellStr(frame.rows[i][pj], ColAsFloat(frame, pj))),
     month |-> LongMonth(frame, mj, i),
     demand |-> ToNumeric(frame.rows[i][dj]),
     per_unit_consumption |-> ToNumeric(frame.rows[i][cj])]

LongTable(frame, pj, mj, dj, cj) ==
    Only({[k \in 1..Len(order) |-> LongRecord(frame, pj, mj, dj, cj, order[k])] :
          order \in {Ascending(LongKept(frame, pj, mj, dj, cj))}})

\* the column that carries the name target after the rename
ColumnNamed(names, target) == CHOOSE j \in 1..Len(names) : names[j] = target

NormalizeLong(frame, product_col, month_col, demand_col, consumption_col) ==
    Only({IF \E k \in 1..4 : \A j \in 1..Len(names) : names[j] # LongTargets[k]
          THEN OtherError("KeyError")
          ELSE IF \E k \in 1..4 :
                     Cardinality({j \in 1..Len(names) : names[j] = LongTargets[k]}) > 1
          THEN OtherError("TypeError")
          ELSE Returned(LongTable(frame, ColumnNamed(names, "product"),
                                  ColumnNamed(names, "month"),
                                  ColumnNamed(names, "demand"),
                                  ColumnNamed(names, "per_unit_consumption"))) :
          names \in {RenamedCols(frame.cols, product_col, month_col, demand_col,
                                 consumption_col)}})

\* the records of the wide layout, lines 221-246: one per (row, month column)
\* whose cell is numeric, in row order and then column order
ProductText(frame, product_col, i) ==
    Strip(CellStr(frame.rows[i][product_col], RowAsFloat(frame, product_col)))

\* lines 221-225: a row with a product that is no month label
WideRowOk(frame, product_col, i) ==
    /\ ~IsBlank(frame.rows[i][product_col])
    /\ \E product_text \in {ProductText(frame, product_col, i)} :
          product_text # "" /\ CanonicalMonthText(product_text) = ""

\* lines 229-236: a month cell that holds a number
WideCellOk(c) ==
    /\ ~IsBlank(c)
    /\ ~(IsText(c) /\ CanonicalMonthText(c.s) # "")
    /\ CoerceNumber(c) # None

WideRecord(frame, product_col, consumption_col, month_columns, i, j) ==
    [product |-> ProductText(frame, product_col, i),
     month |-> month_columns[j],
     demand |-> CoerceNumber(frame.rows[i][j]),
     per_unit_consumption |-> ToNumeric(frame.rows[i][consumption_col])]

\* lines 219-245: one record per row and month cell, in row-major order; a
\* cell is numbered i * width + j
WideRecords(frame, product_col, consumption_col, month_columns) ==
    LET width == NCols(frame) + 1
    IN Only({[k \in 1..Len(order) |->
                 WideRecord(frame, product_col, consumption_col, month_columns,
                            order[k] \div width, order[k] % width)] :
             order \in {Ascending(UNION {
                 {i * width + j :
                     j \in {h \in 1..NCols(frame) :
                               /\ month_columns[h] # ""
                               /\ WideCellOk(frame.rows[i][h])}} :
                 i \in {r \in 1..NRows(frame) : WideRowOk(frame, product_col, r)}})}})

\* groupby("product")[...].ffill(): the last earlier value of the same product
GroupFFill(recs) ==
    [k \in 1..Len(recs) |->
        IF recs[k].per_unit_consumption # None THEN recs[k].per_unit_consumption
        ELSE LET prev == {j \in 1..(k - 1) :
                             /\ recs[j].product = recs[k].product
                             /\ recs[j].per_unit_consumption # None}
             IN IF prev = {} THEN None ELSE recs[MaxOf(prev)].per_unit_consumption]

\* Series.bfill() on the result: the next later value, of whatever product
BFillSeries(vals) ==
    [k \in 1..Len(vals) |->
        IF vals[k] # None THEN vals[k]
        ELSE LET next == {j \in (k + 1)..Len(vals) : vals[j] # None}
             IN IF next = {} THEN None ELSE vals[MinOf(next)]]

\* lines 255-257
FillConsumption(recs) == BFillSeries(GroupFFill(recs))

\* lines 247-263: the outcome for the records built
WideOutcome(records) ==
    Only({IF records = <<>>
          THEN ValueError("No monthly demand values could be parsed from the supplied sheet.")
          ELSE IF \E k \in 1..Len(filled) : filled[k] = None
          THEN ValueError("Per-unit consumption values are missing for some products.")
          ELSE Returned([k \in 1..Len(records) |->
                           [records[k] EXCEPT !.per_unit_consumption = filled[k]]]) :
          filled \in {FillConsumption(records)}})

\* the wide layout branch, lines 210-263
NormalizeWide(frame, product_col, consumption_col) ==
    IF consumption_col = 0
    THEN ValueError("Unable to locate the per-unit consumption column.")
    ELSE Only({IF \A j \in 1..NCols(frame) : month_columns[j] = ""
               THEN ValueError("Could not detect any monthly columns.")
               ELSE Only({WideOutcome(records) :
                          records \in {WideRecords(frame, product_col, consumption_col,
                                                   month_columns)}}) :
               month_columns \in {DetectMonthColumns(frame)}})

\* whether the long layout branch is taken, line 184
IsLongLayout(month_col, demand_col, consumption_col) ==
    month_col # 0 /\ demand_col # 0 /\ consumption_col # 0

\* lines 180-263 for the columns found (0: not found)
NormalizeFound(df, found, month_col, demand_col, consumption_col) ==
    IF found = 0 /\ NCols(df) = 0 THEN OtherError("IndexError")
    ELSE LET product_col == IF found # 0 THEN found ELSE 1
         IN IF IsLongLayout(month_col, demand_col, consumption_col)
            THEN NormalizeLong(df, product_col, month_col, demand_col, consumption_col)
            ELSE NormalizeWide(df, product_col, consumption_col)

\* lines 180-263 for the stripped header names
NormalizeStripped(df) ==
    Only({NormalizeFound(df, found, month_col, demand_col, consumption_col) :
             found \in {FindColumn(df.cols, PRODUCT_KEYS)},
             month_col \in {FindColumn(df.cols, MONTH_KEYS)},
             demand_col \in {FindColumn(df.cols, DEMAND_KEYS)},
             consumption_col \in {FindColumn(df.cols, CONSUMPTION_KEYS)}})

\* _normalize_input_dataframe
NormalizeInputDataframe(frame) ==
    Only({NormalizeStripped([frame EXCEPT !.cols = cols]) :
             cols \in {[j \in 1..NCols(frame) |-> Strip(frame.cols[j])]}})

(***************************************************************************)
(* workflow4.py: _build_forecast_tables                                    *)
(***************************************************************************)
DEFAULT_WINDOW == 3

\* characters in code point order (the stand-in "#" for U+6708 comes last)
CodeOrder ==
    " ,-.0123456789<>ABCDEFGHIJKLMNOPQRSTUVWXYZ_abcdefghijklmnopqrstuvwxyz#"

RECURSIVE StrLessFrom(_, _, _)
StrLessFrom(a, b, i) ==
    IF i > Len(b) THEN FALSE
    ELSE IF i > Len(a) THEN TRUE
    ELSE IF CharAt(a, i) = CharAt(b, i) THEN StrLessFrom(a, b, i + 1)
    ELSE IndexIn(CharAt(a, i), CodeOrder) < IndexIn(CharAt(b, i), CodeOrder)

\* a < b on str
StrLess(a, b) == StrLessFrom(a, b, 1)

RECURSIVE SortStrings(_)
\* sorted(S) for a finite set of strings
SortStrings(S) ==
    IF S = {} THEN <<>>
    ELSE LET least == CHOOSE a \in S : \A b \in S \ {a} : StrLess(a, b)
         IN <<least>> \o SortStrings(S \ {least})

\* lines 298-304: the rows of one product that have a demand and a month index,
\* sorted by the month index.  sort_values uses an unstable sort: rows of the
\* same month come out in an order the build chooses, given here by tie, a
\* permutation of the row positions.  month_index[k] is _month_index of row k.
CleanedRows(table, product, month_index, tie) ==
    LET mine == {k \in 1..Len(table) :
                    /\ table[k].product = product
                    /\ table[k].demand # None
                    /\ month_index[k] # 0}
        keys == {month_index[k] * (Len(table) + 1) + tie[k] : k \in mine}
        order == Ascending(keys)
        row(key) == CHOOSE k \in mine : tie[k] = key % (Len(table) + 1)
    IN [i \in 1..Len(order) |-> table[row(order[i])]]

\* np.mean of the last n values of a sequence of values
MeanOfLast(vals, n) ==
    ValDivInt(ValSum(SubSeq(vals, Len(vals) - n + 1, Len(vals))), n)

\* a forecast that averages the whole series whatever the window
ForecastValueWholeSeries(demand_series, window) ==
    ValMax0(IF Len(demand_series) = 0 THEN ValZero
            ELSE MeanOfLast(demand_series, Len(demand_series)))

\* lines 316-330: the forecast value of a sorted demand series
ForecastValue(demand_series, window) ==
    LET n == Len(demand_series)
    IN ValMax0(IF n >= window THEN MeanOfLast(demand_series, window)
               ELSE IF n >= 2 THEN MeanOfLast(demand_series, n)
               ELSE IF n > 0 THEN demand_series[n]
               ELSE ValZero)

\* lines 316-327: the method label
ForecastMethod(n, window) ==
    IF n >= window THEN IntStr(window) \o "-month moving average"
    ELSE IF n >= 2 THEN IntStr(n) \o "-month average"
    ELSE "single period or insufficient data"

\* the record with its raw material computed from the factors as stored
ForecastRecordOfStored(product, cleaned, window) ==
    LET demand_series == [i \in 1..Len(cleaned) |-> cleaned[i].demand]
        forecast_value == ForecastValue(demand_series, window)
        have == {i \in 1..Len(cleaned) : cleaned[i].per_unit_consumption # None}
        per_unit_value == cleaned[MaxOf(have)].per_unit_consumption
        stored_demand == [n |-> RoundTo(forecast_value, 2), d |-> 100]
        stored_per_unit == [n |-> RoundTo(per_unit_value, 4), d |-> 10000]
    IN IF have = {} THEN None
       ELSE [Product |-> product,
             ForecastDemand |-> stored_demand,
             PerUnitConsumption |-> stored_per_unit,
             RawMaterialNeeded |->
                 [n |-> RoundTo([n |-> stored_demand.n * stored_per_unit.n, d |-> 10000], 0),
                  d |-> 100]]

\* lines 332-349: the forecast record of one product, None when the product
\* has no per-unit consumption value
ForecastRecord(product, cleaned, window) ==
    LET demand_series == [i \in 1..Len(cleaned) |-> cleaned[i].demand]
        forecast_value == ForecastValue(demand_series, window)
        have == {i \in 1..Len(cleaned) : cleaned[i].per_unit_consumption # None}
        per_unit_value == cleaned[MaxOf(have)].per_unit_consumption
        raw_material_needed == ValMul(forecast_value, per_unit_value)
    IN IF have = {} THEN None
       ELSE [Product |-> product,
             ForecastDemand |-> [n |-> RoundTo(forecast_value, 2), d |-> 100],
             PerUnitConsumption |-> [n |-> RoundTo(per_unit_value, 4), d |-> 10000],
             RawMaterialNeeded |-> [n |-> RoundTo(raw_material_needed, 2), d |-> 100]]

\* lines 293-367 for the groups already cleaned: cleaned[i] are the sorted rows
\* of products[i]
ForecastOutcome(products, cleaned, window) ==
    LET live == {i \in 1..Len(products) : cleaned[i] # <<>>}
        order == Ascending(live)
        record(i) == ForecastRecord(products[i], cleaned[i], window)
    IN IF \E i \in live : record(i) = None
       THEN [status |-> "ValueError", msg |-> "Missing per-unit consumption values",
             forecast_table |-> <<>>, methods |-> <<>>, trend |-> <<>>]
       ELSE IF live = {}
       THEN [status |-> "ValueError", msg |-> "Forecast table is empty.",
             forecast_table |-> <<>>, methods |-> <<>>, trend |-> <<>>]
       ELSE [status |-> "ok", msg |-> "",
             forecast_table |-> [k \in 1..Len(order) |-> record(order[k])],
             methods |-> [k \in 1..Len(order) |->
                            ForecastMethod(Len(cleaned[order[k]]), window)],
             trend |-> [k \in 1..Len(order) |-> cleaned[order[k]]]]

\* _build_forecast_tables: the groups of df.groupby("product") in key order,
\* each cleaned and sorted, then lines 305-367
BuildForecastTables(table, tie) ==
    LET products == SortStrings({table[k].product : k \in 1..Len(table)})
        indices == [k \in 1..Len(table) |-> MonthIndex(table[k].month)]
        groups == {[i \in 1..Len(products) |->
                       CleanedRows(table, products[i], month_index, tie)] :
                   month_index \in {indices}}
    IN CHOOSE out \in {ForecastOutcome(products, cleaned, DEFAULT_WINDOW) :
                          cleaned \in groups} : TRUE

(***************************************************************************)
(* views.py: parse_excel_regions.  A grid is the sheet read without a      *)
(* header: a sequence of rows, row index i of the code being grid[i + 1].  *)
(* The result maps row indices to region tags; a row index outside its     *)
(* DOMAIN has no entry in the dict the code returns.                       *)
(***************************************************************************)
INGREDIENTS ==
    <<"MCT360", "MCT165", "MCTSTICK10", "MCTSTICK30", "MCTSTICK16", "MCTITTO_C">>

SeparatorWindow == 100
FallbackWindow == 200
SearchWindow == 500
AnnualGroup == 5
IngredientHeaderRows == 3
LastAnnualColumn == 16

Min2(a, b) == IF a < b THEN a ELSE b

GridRow(grid, i) == grid[i + 1]
GridWidth(grid) == IF Len(grid) = 0 THEN 0 ELSE Len(grid[1])

\* df.iloc[i].isna().all()
RowAllBlank(grid, i) == \A j \in 1..GridWidth(grid) : IsBlank(GridRow(grid, i)[j])

\* df.iloc[i].iloc[2:max_col_idx].isna().all()
RowBlankFromC(grid, i, max_col_idx) ==
    \A j \in 3..max_col_idx : IsBlank(GridRow(grid, i)[j])

\* ing.lower() for each code
IngredientsLower == [k \in 1..Len(INGREDIENTS) |-> Lower(INGREDIENTS[k])]

\* the codes (as indices into INGREDIENTS) that str(df.iloc[i]['A']).lower() contains
CodesInA(grid, i) ==
    {k \in 1..Len(INGREDIENTS) :
        \E cell_value \in {Lower(CellStr(GridRow(grid, i)[1], FALSE))} :
            Contains(cell_value, IngredientsLower[k])}

\* the function f with each of its values computed
Computed(f) == Only({g \in {f} : g = g})

\* the assignments regions[j] = tag made for every j in rows
Write(rows, tag) == <<[rows |-> rows, tag |-> tag]>>

\* the dict after the assignments of writes, made in that order: each row that
\* was assigned holds the tag of the last assignment to it
Regions(writes) ==
    Only({Computed([j \in UNION {ws[w].rows : w \in 1..Len(ws)} |->
                       ws[MaxOf({w \in 1..Len(ws) : j \in ws[w].rows})].tag]) :
             ws \in {writes}})

\* lines 247-252: the first fully blank row among rows 2..99, or -1
SeparatorRow(grid) ==
    LET hits == {i \in 2..(Min2(Len(grid), SeparatorWindow) - 1) : RowAllBlank(grid, i)}
    IN Only({IF h = {} THEN -1 ELSE MinOf(h) : h \in {hits}})

\* range(start, end) of the idx-th match: from its start to the start of the
\* next match, for the last match to the end of the sheet
SpanRows(sorted, idx, total_rows) ==
    sorted[idx].start..
        ((IF idx + 1 <= Len(sorted) THEN sorted[idx + 1].start ELSE total_rows) - 1)

SpanTag(sorted, idx) == "ingredient_" \o IngredientsLower[sorted[idx].ing]

\* a parser that tags the marker row of each code and no row after it
AssignSpansMarkerRowOnly(sorted, total_rows) ==
    [idx \in 1..Len(sorted) |->
        [rows |-> {sorted[idx].start}, tag |-> SpanTag(sorted, idx)]]

\* lines 274-277 and 346-349: the matches are taken in the order of sorted and
\* each one tags the rows from its start to the start of the next one
AssignSpans(sorted, total_rows) ==
    [idx \in 1..Len(sorted) |->
        [rows |-> SpanRows(sorted, idx, total_rows), tag |-> SpanTag(sorted, idx)]]

\* sorted(matches.items(), key=start) for matches entered in the order given
\* by their keys start * 8 + ing (row first, then the list order of the code)
SortedMatches(found) ==
    Only({[i \in 1..Len(order) |-> [ing |-> order[i] % 8, start |-> order[i] \div 8]] :
             order \in {Ascending({found[k] * 8 + k : k \in DOMAIN found})}})

\* lines 260-269: for each code found in rows 2..199 of column A, its first row
FoundIngredients(grid) ==
    LET window == 2..(Min2(Len(grid), FallbackWindow) - 1)
    IN Only({[k \in {c \in 1..Len(INGREDIENTS) : \E i \in window : c \in codes[i]}
                 |-> MinOf({i \in window : k \in codes[i]})] :
             codes \in {Computed([i \in window |-> CodesInA(grid, i)])}})

\* lines 271-286: the assignments made once the codes have been looked for
FallbackTags(sorted_ingredients, total_rows) ==
    IF Len(sorted_ingredients) > 0
    THEN AssignSpans(sorted_ingredients, total_rows)
             \o Write({i \in 2..(sorted_ingredients[1].start - 1) : i > 2}, "annual_data")
             \o Write({i \in 2..(sorted_ingredients[1].start - 1) : i = 2},
                      "annual_header")
    ELSE Write(2..(total_rows - 1), "unknown")

\* lines 255-286: the strategy used when no separator row was found
NoSeparatorRegions(grid) ==
    Only({FallbackTags(sorted_ingredients, Len(grid)) :
             sorted_ingredients \in {SortedMatches(FoundIngredients(grid))}})

\* line 300: the row is empty in C to P (tested when the sheet has a column C)
AnnualSeparatorAt(grid, row_idx, max_col_idx) ==
    max_col_idx > 2 /\ RowBlankFromC(grid, row_idx, max_col_idx)

\* lines 299-311: the rows tagged annual_data when the walk stands at row_idx
AnnualDataAt(grid, row_idx, separator_row, max_col_idx) ==
    IF max_col_idx > 2
    THEN IF RowBlankFromC(grid, row_idx, max_col_idx) THEN {}
         ELSE {row_idx + i : i \in 0..(AnnualGroup - 1)} \cap 0..(separator_row - 1)
    ELSE {row_idx}

\* lines 302, 308, 311: the row the walk stands at next
NextRow(grid, row_idx, max_col_idx) ==
    IF max_col_idx > 2 /\ ~RowBlankFromC(grid, row_idx, max_col_idx)
    THEN row_idx + AnnualGroup
    ELSE row_idx + 1

RECURSIVE WalkRows(_, _, _, _)
\* lines 294-311: the values row_idx takes in the while loop
WalkRows(grid, row_idx, separator_row, max_col_idx) ==
    IF row_idx >= separator_row THEN {}
    ELSE {row_idx}
             \cup WalkRows(grid, NextRow(grid, row_idx, max_col_idx), separator_row,
                           max_col_idx)

\* lines 294-311: groups of 5 annual rows, separated by rows empty in C..P; no
\* row is tagged at two values of row_idx
AnnualWalk(grid, separator_row, max_col_idx) ==
    Only({Write({row_idx \in visited : AnnualSeparatorAt(grid, row_idx, max_col_idx)},
                "annual_separator")
              \o Write(UNION {AnnualDataAt(grid, row_idx, separator_row, max_col_idx) :
                                 row_idx \in visited},
                       "annual_data") :
             visited \in {WalkRows(grid, 3, separator_row, max_col_idx)}})

\* lines 288-311: the annual header and the annual rows up to the separator
AnnualTags(grid, separator_row) ==
    Write(IF 2 < separator_row THEN {2} ELSE {}, "annual_header")
        \o AnnualWalk(grid, separator_row, Min2(LastAnnualColumn, GridWidth(grid)))

\* lines 313-317: the first row of the ingredient section, after the separator
\* when that row is fully empty
StartIngredient(grid, separator_row) ==
    IF separator_row < Len(grid) /\ RowAllBlank(grid, separator_row)
    THEN separator_row + 1
    ELSE separator_row

\* lines 313-322: the separator, when it is fully empty, and the three header
\* rows
HeaderTags(grid, separator_row, start_ingredient) ==
    Write(IF start_ingredient > separator_row THEN {separator_row} ELSE {}, "empty")
        \o Write({start_ingredient + i : i \in 0..(IngredientHeaderRows - 1)}
                     \cap 0..(Len(grid) - 1),
                 "ingredient_header")

\* the window one code is searched in, line 333
SearchRange(temp_start, total_rows) ==
    temp_start..(Min2(total_rows, temp_start + SearchWindow) - 1)

\* each code searched over all the rows below the header rows, whatever was
\* matched before
FirstMatchAnywhere(codes, total_rows, k, temp_start) ==
    Only({IF hits = {} THEN -1 ELSE MinOf(hits) :
             hits \in {{i \in DOMAIN codes : k \in codes[i]}}})

\* lines 333-339: the first row of the window that holds code k, or -1
FirstMatch(codes, total_rows, k, temp_start) ==
    Only({IF hits = {} THEN -1 ELSE MinOf(hits) :
             hits \in {{i \in SearchRange(temp_start, total_rows) : k \in codes[i]}}})

RECURSIVE SequentialStarts(_, _, _, _, _)
\* lines 332-341: each code is searched from the row after the previous match;
\* codes[i] are the codes that column A of row i contains
SequentialStarts(codes, total_rows, k, temp_start, starts) ==
    IF k > Len(INGREDIENTS) THEN starts
    ELSE Only({IF i = -1
               THEN SequentialStarts(codes, total_rows, k + 1, temp_start, starts)
               ELSE SequentialStarts(codes, total_rows, k + 1, i + 1,
                                     [j \in DOMAIN starts \cup {k} |->
                                         IF j = k THEN i ELSE starts[j]]) :
               i \in {FirstMatch(codes, total_rows, k, temp_start)}})

\* lines 324-341: the row each code was found at
Starts(grid, current_start) ==
    Only({SequentialStarts(codes, Len(grid), 1, current_start, <<>>) :
             codes \in {Computed([i \in current_start..(Len(grid) - 1) |->
                                     CodesInA(grid, i)])}})

\* lines 324-349: the spans of the codes found after the header rows
IngredientTags(grid, current_start) ==
    Only({AssignSpans(sorted_starts, Len(grid)) :
             sorted_starts \in {SortedMatches(Starts(grid, current_start))}})

\* lines 288-351: the strategy used when a separator row was found
StandardRegions(grid, separator_row) ==
    Only({AnnualTags(grid, separator_row)
              \o HeaderTags(grid, separator_row, start_ingredient)
              \o IngredientTags(grid, start_ingredient + IngredientHeaderRows) :
             start_ingredient \in {StartIngredient(grid, separator_row)}})

\* lines 235-252: the title row, the empty row and the search for the
\* separator row that chooses the strategy
RegionWrites(grid) ==
    Write({0}, "title")
        \o Write(IF 1 < Len(grid) THEN {1} ELSE {}, "empty")
        \o Only({IF separator_row = -1 THEN NoSeparatorRegions(grid)
                 ELSE StandardRegions(grid, separator_row) :
                 separator_row \in {SeparatorRow(grid)}})

\* parse_excel_regions
ParseExcelRegions(grid) ==
    IF Len(grid) = 0 THEN <<>> ELSE Regions(RegionWrites(grid))

(***************************************************************************)
(* Sheets for the region parser: a sheet is described by its layout and    *)
(* SheetGrid builds the grid of cells (columns A..D) from it.              *)
(***************************************************************************)
MaxMarkers == 2

RowTitle == <<T("Stock report"), B, B, B>>
RowBlank == <<B, B, B, B>>
RowAnnualHeader == <<T("Item"), T("Unit"), T("April"), T("May")>>
RowData == <<T("x"), B, I(10), I(20)>>
RowAnnualSeparator == <<T("x"), B, B, B>>
RowIngredientHeader == <<T("Ingredient"), B, T("April"), T("May")>>
RowMarker(k) == <<T(INGREDIENTS[k]), B, I(1), I(2)>>

Rep(row, n) == [i \in 1..n |-> row]

\* a block longer than the window one code is searched in
BigBlock == SearchWindow + 1

AnnualShort == <<RowAnnualHeader>> \o Rep(RowData, 5) \o <<RowAnnualSeparator>>
                   \o Rep(RowData, 2)
\* annual rows 2..99: the separator that follows is row 100
AnnualLong == <<RowAnnualHeader>> \o Rep(RowData, SeparatorWindow - 3)

\* annual rows 2..98: the separator that follows is row 99
AnnualEdge == <<RowAnnualHeader>> \o Rep(RowData, SeparatorWindow - 4)

AnnualShapes == {"none", "header", "short", "edge", "long"}

AnnualRows(shape) ==
    CASE shape = "none" -> <<>>
      [] shape = "header" -> <<RowAnnualHeader>>
      [] shape = "short" -> AnnualShort
      [] shape = "edge" -> AnnualEdge
      [] shape = "long" -> AnnualLong

AllCodes == <<1, 2, 3, 4, 5, 6>>

\* the orders in which markers follow each other down column A
MarkerOrders ==
    {AllCodes}
        \cup UNION {{o \in [1..n -> 1..Len(INGREDIENTS)] :
                        \A i, j \in 1..n : i # j => o[i] # o[j]} : n \in 0..MaxMarkers}

\* the number of rows of the k-th block, its marker row included
BlockLen(sheet, k) == IF k = sheet.big THEN sheet.biglen ELSE sheet.len

RECURSIVE BlockRows(_, _)
BlockRows(sheet, k) ==
    IF k > Len(sheet.order) THEN <<>>
    ELSE <<RowMarker(sheet.order[k])>>
             \o Rep(RowData, BlockLen(sheet, k) - 1)
             \o BlockRows(sheet, k + 1)

SheetGrid(sheet) ==
    <<RowTitle, RowBlank>>
        \o AnnualRows(sheet.annual)
        \o Rep(RowBlank, sheet.sep)
        \o Rep(RowIngredientHeader, sheet.hdr)
        \o Rep(RowData, sheet.pre)
        \o BlockRows(sheet, 1)

\* the sheets the parser is run on: big blocks and long annual sections are
\* combined with the plain layouts only
Sheets ==
    {sh \in [annual : AnnualShapes, sep : {0, 1}, hdr : {0, 2, 3}, pre : {0, 1},
             order : MarkerOrders, len : {1, 2}, big : 0..Len(INGREDIENTS),
             biglen : {SearchWindow, BigBlock}] :
        /\ sh.big <= Len(sh.order)
        /\ sh.big = 0 => sh.biglen = SearchWindow
        /\ (sh.big # 0 \/ sh.annual \in {"edge", "long"}) =>
               /\ sh.hdr = 3 /\ sh.len = 2 /\ sh.pre = 0
               /\ (sh.order = AllCodes \/ Len(sh.order) <= 1)
        /\ (sh.big # 0 /\ sh.order = AllCodes) => sh.big \in {2, 6}}

(***************************************************************************)
(* SpecForecast: _build_forecast_tables applied to normalized tables       *)
(***************************************************************************)
MaxObs == 4

Dec(m, e) == Val(F(m, e))

FcMonths == {"January", "Feb", "3", "December", "Q1"}
FcProducts == {<<"A", "A", "A", "A", "A">>, <<"A", "B", "A", "B", "A">>}
\* demand and per-unit consumption by row position
FcProfiles ==
    { [demand |-> <<Dec(10, 0), Dec(20, 0), Dec(30, 0), Dec(40, 0), Dec(50, 0)>>,
       per_unit |-> <<Dec(25, 1), Dec(25, 1), Dec(25, 1), Dec(25, 1), Dec(25, 1)>>],
      [demand |-> <<Dec(40, 0), None, Dec(25, 0), Dec(10, 0), Dec(5, 1)>>,
       per_unit |-> <<None, Dec(15, 1), None, None, None>>],
      [demand |-> <<Dec(-50, 0), Dec(10, 0), Dec(-30, 0), Dec(5, 0), Dec(15, 0)>>,
       per_unit |-> <<Dec(125, 3), Dec(25, 1), Dec(15, 1), Dec(125, 3), None>>],
      [demand |-> <<Dec(10, 0), Dec(20, 0), Dec(25, 0), Dec(15, 0), Dec(35, 0)>>,
       per_unit |-> <<None, None, None, None, None>>] }

\* the tables of 1 to max_obs rows
FcTables(max_obs) ==
    UNION {{[k \in 1..n |-> [product |-> prod[k], month |-> months[k],
                             demand |-> prof.demand[k],
                             per_unit_consumption |-> prof.per_unit[k]]] :
               prod \in FcProducts, months \in [1..n -> FcMonths], prof \in FcProfiles} :
           n \in 1..max_obs}

\* the orders an unstable sort can leave the rows of one product and month in
TieOrders(table) ==
    LET n == Len(table)
        keys == [k \in 1..n |-> <<table[k].product, MonthIndex(table[k].month),
                                  table[k].demand # None>>]
    IN UNION {{tie \in [1..n -> 1..n] :
                  /\ \A k \in 1..n : key[tie[k]] = key[k]
                  /\ \A j, k \in 1..n : j # k => tie[j] # tie[k]} : key \in {keys}}

PureIdle ==
    /\ nzFrame = None /\ nzOut = None
    /\ fcIn = <<>> /\ fcTie = <<>> /\ fcOut = None
    /\ rgSheet = None /\ rgOut = None
    /\ fnCall = None /\ fnOut = None

\* the web application as deployed: no upload, no file, no request
MaxRequests == 3
MaxConcurrent == 2
MaxClock == 1

WebIdle ==
    /\ uploads = <<>>
    /\ snapshots = <<>>
    /\ processed = <<>>
    /\ finals = [t \in 0..MaxClock |-> 0]
    /\ charts = [demand |-> 0, raw_material |-> 0]
    /\ clock = 0
    /\ stamp = 1
    /\ reqs = <<>>

InitForecast ==
    /\ fcIn \in FcTables(MaxObs)
    /\ fcTie = <<>> /\ fcOut = None
    /\ nzFrame = None /\ nzOut = None /\ rgSheet = None /\ rgOut = None
    /\ fnCall = None /\ fnOut = None
    /\ WebIdle

BuildForecast ==
    /\ fcIn # <<>> /\ fcOut = None
    /\ \E tie \in TieOrders(fcIn) :
          /\ fcTie' = tie
          /\ fcOut' = BuildForecastTables(fcIn, tie)
    /\ UNCHANGED <<nzFrame, nzOut, fcIn, rgSheet, rgOut, fnCall, fnOut, webVars>>

NextForecast == BuildForecast

SpecForecast == InitForecast /\ [][NextForecast]_vars

(***************************************************************************)
(* C9: what _build_forecast_tables is expected to return, stated on the    *)
(* rows of the table handed in                                             *)
(***************************************************************************)
\* the calendar number of the month labels used in FcTables, 0 for no month
CalendarIndex(label) ==
    CASE label = "January" -> 1
      [] label = "Feb" -> 2
      [] label = "3" -> 3
      [] label = "December" -> 12
      [] OTHER -> 0

\* the observations of a product: its rows with a demand and a calendar month
Observations(product) ==
    {k \in 1..Len(fcIn) :
        /\ fcIn[k].product = product
        /\ fcIn[k].demand # None
        /\ CalendarIndex(fcIn[k].month) # 0}

\* row j comes before row k once sorted by calendar month
SortsBefore(j, k) ==
    \/ CalendarIndex(fcIn[j].month) < CalendarIndex(fcIn[k].month)
    \/ /\ CalendarIndex(fcIn[j].month) = CalendarIndex(fcIn[k].month)
       /\ fcTie[j] < fcTie[k]

\* the m rows of S that sort last
LastOf(S, m) == {k \in S : Cardinality({j \in S : SortsBefore(k, j)}) < m}

RECURSIVE DemandSum(_)
DemandSum(S) ==
    IF S = {} THEN ValZero
    ELSE LET k == CHOOSE j \in S : TRUE
         IN ValAdd(fcIn[k].demand, DemandSum(S \ {k}))

ExpectedForecast(product) ==
    LET S == Observations(product)
        used == IF Cardinality(S) >= 3 THEN LastOf(S, 3) ELSE S
    IN ValMax0(ValDivInt(DemandSum(used), Cardinality(used)))

ExpectedLabel(product) ==
    LET n == Cardinality(Observations(product))
    IN IF n >= 3 THEN "3-month moving average"
       ELSE IF n = 2 THEN "2-month average"
       ELSE "single period or insufficient data"

\* the per-unit consumption of the latest observation that has one
ExpectedPerUnit(product) ==
    LET S == {k \in Observations(product) : fcIn[k].per_unit_consumption # None}
    IN fcIn[CHOOSE k \in LastOf(S, 1) : TRUE].per_unit_consumption

C9_Example ==
    [k \in 1..4 |->
        [product |-> "A",
         month |-> <<"January", "Feb", "3", "December">>[k],
         demand |-> <<Dec(10, 0), Dec(20, 0), Dec(30, 0), Dec(40, 0)>>[k],
         per_unit_consumption |-> Dec(25, 1)]]

\* C9: for every product of the returned forecast table, Forecast Demand is
\* the mean of the last 3 demands in calendar-month order when the product has
\* at least 3 observations, the mean of both when it has 2 and the single
\* value when it has 1, floored at 0 and rounded to 2 places; the method label
\* names the rule used; Raw Material Needed is that forecast times the most
\* recent per-unit consumption, rounded to 2 places; demands 10, 20, 30, 40
\* with per-unit consumption 2.5 give 30.0 and 75.0.
C9_ForecastFollowsSortedWindow ==
    (fcOut # None /\ fcOut.status = "ok") =>
        /\ \A i \in 1..Len(fcOut.forecast_table) :
              LET r == fcOut.forecast_table[i]
              IN /\ Observations(r.Product) # {}
                 /\ r.ForecastDemand =
                        [n |-> RoundTo(ExpectedForecast(r.Product), 2), d |-> 100]
                 /\ r.ForecastDemand.n >= 0
                 /\ fcOut.methods[i] = ExpectedLabel(r.Product)
                 /\ r.RawMaterialNeeded =
                        [n |-> RoundTo(ValMul(ExpectedForecast(r.Product),
                                              ExpectedPerUnit(r.Product)), 2),
                         d |-> 100]
        /\ \A k \in 1..Len(fcIn) :
              Observations(fcIn[k].product) # {} =>
                  \E i \in 1..Len(fcOut.forecast_table) :
                      fcOut.forecast_table[i].Product = fcIn[k].product
        /\ fcIn = C9_Example =>
              /\ fcOut.forecast_table[1].ForecastDemand = [n |-> 3000, d |-> 100]
              /\ fcOut.forecast_table[1].RawMaterialNeeded = [n |-> 7500, d |-> 100]

\* a forecast was returned for a product with four observations that were
\* handed in out of calendar order and whose demands sum to more than 0
C9_SortedWindowWitness ==
    /\ fcOut # None /\ fcOut.status = "ok"
    /\ \E i \in 1..Len(fcOut.forecast_table) :
          LET S == Observations(fcOut.forecast_table[i].Product)
          IN /\ Cardinality(S) >= 4
             /\ \E j, k \in S : j < k /\ SortsBefore(k, j)
             /\ fcOut.forecast_table[i].ForecastDemand.n > 0

(***************************************************************************)
(* SpecRegions: parse_excel_regions applied to sheets                      *)
(***************************************************************************)
InitRegions ==
    /\ rgSheet \in Sheets
    /\ rgOut = None
    /\ nzFrame = None /\ nzOut = None
    /\ fcIn = <<>> /\ fcTie = <<>> /\ fcOut = None
    /\ fnCall = None /\ fnOut = None
    /\ WebIdle

ParseRegions ==
    /\ rgSheet # None /\ rgOut = None
    /\ \E grid \in {SheetGrid(rgSheet)} :
          rgOut' = [regions |-> ParseExcelRegions(grid)]
    /\ UNCHANGED <<nzFrame, nzOut, fcIn, fcTie, fcOut, rgSheet, fnCall, fnOut, webVars>>

NextRegions == ParseRegions

SpecRegions == InitRegions /\ [][NextRegions]_vars

(***************************************************************************)
(* C7, C8: the rows of a sheet, from its layout                            *)
(***************************************************************************)
RECURSIVE BlocksBefore(_, _)
\* the rows taken by the blocks before the k-th
BlocksBefore(sheet, k) ==
    IF k = 1 THEN 0 ELSE BlocksBefore(sheet, k - 1) + BlockLen(sheet, k - 1)

\* the row index of the blank separator (when sheet.sep = 1)
SeparatorAt(sheet) == 2 + Len(AnnualRows(sheet.annual))

\* the row index after the ingredient header rows
AfterHeaders(sheet) == SeparatorAt(sheet) + sheet.sep + sheet.hdr

\* the row index of the k-th marker
MarkerAt(sheet, k) == AfterHeaders(sheet) + sheet.pre + BlocksBefore(sheet, k)

TotalRows(sheet) == MarkerAt(sheet, Len(sheet.order) + 1)

\* an annual section, a blank separator, three ingredient header rows and the
\* six markers in ascending row order
WellFormed(sheet) ==
    /\ sheet.annual # "none"
    /\ sheet.sep = 1
    /\ sheet.hdr = 3
    /\ sheet.order = AllCodes

ExpectedTag ==
    <<"ingredient_mct360", "ingredient_mct165", "ingredient_mctstick10",
      "ingredient_mctstick30", "ingredient_mctstick16", "ingredient_mctitto_c">>

\* the rows from each code's marker up to the next marker (the last code's up
\* to the end of the sheet) carry the tag of that code
SpansTagged(sheet, regions) ==
    \A k \in 1..Len(sheet.order) :
        \A j \in MarkerAt(sheet, k)..(MarkerAt(sheet, k + 1) - 1) :
            /\ j \in DOMAIN regions
            /\ regions[j] = ExpectedTag[sheet.order[k]]

\* the separator is one of rows 2..99, the first marker is among the 500 rows
\* after the header rows and every other marker among the 500 rows after the
\* marker before it
InsideWindows(sheet) ==
    /\ SeparatorAt(sheet) < 100
    /\ MarkerAt(sheet, 1) < AfterHeaders(sheet) + 500
    /\ \A k \in 2..Len(sheet.order) :
          MarkerAt(sheet, k) <= MarkerAt(sheet, k - 1) + 500

\* C7 as stated: on every well-formed sheet each code's span carries
\* ingredient_<code>, with no gap and no overlap between consecutive spans.
C7_WellFormedSheetTagged ==
    (rgOut # None /\ WellFormed(rgSheet)) => SpansTagged(rgSheet, rgOut.regions)

\* C7 amended: on every well-formed sheet whose separator is one of rows 2..99
\* and whose markers each lie within the 500 rows searched for them, each
\* code's span carries ingredient_<code>, with no gap and no overlap.
C7_WellFormedSheetInsideWindowsTagged ==
    (rgOut # None /\ WellFormed(rgSheet) /\ InsideWindows(rgSheet))
        => SpansTagged(rgSheet, rgOut.regions)

\* a well-formed sheet inside the windows has been parsed, one of its blocks
\* being as long as the search window
C7_InsideWindowsWitness ==
    /\ rgOut # None
    /\ WellFormed(rgSheet) /\ InsideWindows(rgSheet)
    /\ rgSheet.big = 2 /\ rgSheet.biglen = 500
    /\ SpansTagged(rgSheet, rgOut.regions)

\* C8 as stated: the returned dict has a tag for every row index
\* 0..total_rows-1, whichever strategy was used.
C8_EveryRowTagged ==
    rgOut # None => DOMAIN rgOut.regions = 0..(TotalRows(rgSheet) - 1)

(***************************************************************************)
(* SpecNormalize: _normalize_input_dataframe applied to first sheets       *)
(***************************************************************************)
MaxRows == 2

\* header shapes and, per column, the cells a row may hold there
NzShapes ==
    LET products == {T("A"), T("B"), B}
        months == {T("April"), T("Q1")}
        first == {I(10), T("n/a")}
        second == {I(20), B}
        usage == {F(25, 1), B}
    IN { [cols |-> <<"Product", "Month", "Demand", "Per Unit Consumption">>,
          cells |-> <<products, months, first, usage>>],
         [cols |-> <<"Product", "Month", "Per Unit Consumption", "Demand">>,
          cells |-> <<products, months, usage, first>>],
         [cols |-> <<"Product", "Month", "Demand", "Notes">>,
          cells |-> <<products, months, first, second>>],
         [cols |-> <<"Item", "April", "May", "Unit Usage">>,
          cells |-> <<products, first, second, usage>>],
         [cols |-> <<"Item", "April", "May", "Notes">>,
          cells |-> <<products, first, second, usage>>],
         [cols |-> <<"Item", "Alpha", "Beta", "Unit Usage">>,
          cells |-> <<products, first, second, usage>>] }

\* an empty first sheet is read as a frame with no column and no row
EmptyFrame == [cols |-> <<>>, rows |-> <<>>]

\* the frames of 0 to max_rows rows
NzFrames(max_rows) ==
    {EmptyFrame}
        \cup UNION {{[cols |-> sh.cols, rows |-> rows] :
                        rows \in [1..n -> {<<a, b, c, d>> : a \in sh.cells[1],
                                              b \in sh.cells[2], c \in sh.cells[3],
                                              d \in sh.cells[4]}]} :
                    sh \in NzShapes, n \in 0..max_rows}

InitNormalize ==
    /\ nzFrame \in NzFrames(MaxRows)
    /\ nzOut = None
    /\ fcIn = <<>> /\ fcTie = <<>> /\ fcOut = None
    /\ rgSheet = None /\ rgOut = None
    /\ fnCall = None /\ fnOut = None
    /\ WebIdle

Normalize ==
    /\ nzFrame # None /\ nzOut = None
    /\ nzOut' = NormalizeInputDataframe(nzFrame)
    /\ UNCHANGED <<nzFrame, fcIn, fcTie, fcOut, rgSheet, rgOut, fnCall, fnOut, webVars>>

NextNormalize == Normalize

SpecNormalize == InitNormalize /\ [][NextNormalize]_vars

(***************************************************************************)
(* C10: the failures of _normalize_input_dataframe                         *)
(***************************************************************************)
StrippedCols(frame) == [j \in 1..NCols(frame) |-> Strip(frame.cols[j])]

\* month, demand and per-unit consumption columns are all found by name
InLongLayout(frame) ==
    \E cols \in {StrippedCols(frame)} :
        IsLongLayout(FindColumn(cols, MONTH_KEYS), FindColumn(cols, DEMAND_KEYS),
                     FindColumn(cols, CONSUMPTION_KEYS))

NoConsumptionColumn(frame) ==
    FindColumn(StrippedCols(frame), CONSUMPTION_KEYS) = 0

NoMonthColumn(frame) == \A j \in 1..NCols(frame) : MonthOfColumn(frame, j) = ""

\* the (row, month column) records of the wide layout
RecordsOf(frame) ==
    \* the product column is the one found by name, else the first
    LET found == FindColumn(StrippedCols(frame), PRODUCT_KEYS)
    IN WideRecords(frame, IF found # 0 THEN found ELSE 1,
                   FindColumn(StrippedCols(frame), CONSUMPTION_KEYS),
                   DetectMonthColumns(frame))

\* some product has no record with a numeric per-unit consumption, so that
\* filling forward and backward within the product leaves it without one
ProductLacksConsumption(records) ==
    \E k \in 1..Len(records) :
        \A j \in 1..Len(records) :
            records[j].product = records[k].product
                => records[j].per_unit_consumption = None

\* C10: _normalize_input_dataframe raises ValueError, and returns no table,
\* whenever the sheet is not in the long layout and has no per-unit
\* consumption column (month columns or not) and, in the wide layout, when no
\* month column is detected, when no demand value parses, or when some
\* product still lacks a consumption value after the forward/back fill.
C10_NormalizeFailsWithValueError ==
    (nzOut # None /\ ~InLongLayout(nzFrame)) =>
        /\ NoConsumptionColumn(nzFrame) => nzOut.status = "ValueError"
        /\ (~NoConsumptionColumn(nzFrame) /\ NoMonthColumn(nzFrame))
               => nzOut.status = "ValueError"
        /\ (~NoConsumptionColumn(nzFrame) /\ ~NoMonthColumn(nzFrame)) =>
               \E records \in {RecordsOf(nzFrame)} :
                   (records = <<>> \/ ProductLacksConsumption(records))
                       => nzOut.status = "ValueError"

\* the part of C10 that holds for every sheet that has a column: the three
\* failures other than the fill
C10_FailuresOtherThanFill ==
    (nzOut # None /\ ~InLongLayout(nzFrame) /\ NCols(nzFrame) > 0) =>
        /\ NoConsumptionColumn(nzFrame) => nzOut.status = "ValueError"
        /\ (~NoConsumptionColumn(nzFrame) /\ NoMonthColumn(nzFrame))
               => nzOut.status = "ValueError"
        /\ (~NoConsumptionColumn(nzFrame) /\ ~NoMonthColumn(nzFrame)
               /\ RecordsOf(nzFrame) = <<>>) => nzOut.status = "ValueError"

\* a table was returned although one product has no consumption value of its own
C10_BorrowedConsumption ==
    /\ nzOut # None /\ nzOut.status = "ok"
    /\ ~InLongLayout(nzFrame)
    /\ ProductLacksConsumption(RecordsOf(nzFrame))

(***************************************************************************)
(* excel_extractor.py                                                      *)
(***************************************************************************)
FISCAL_MONTHS ==
    <<"April", "May", "June", "July", "August", "September",
      "October", "November", "December", "January", "February", "March">>

MONTH_COLUMNS == <<"D", "E", "F", "G", "H", "I", "J", "K", "L", "M", "N", "O">>

\* normalize_month_name of a str: the canonical month name, "" for None
FiscalOfNumber(num) ==
    IF num >= 4 THEN FISCAL_MONTHS[((num - 4) % 12) + 1] ELSE FISCAL_MONTHS[num + 8 + 1]

\* lines 58-68: the month of the cleaned text
MonthNameOfKey(text) ==
    IF MonthVariant(text) # 0 THEN MONTH_NAMES[MonthVariant(text)]
    ELSE IF IsDigits(text) /\ 1 <= IntOfDigits(text) /\ IntOfDigits(text) <= 12
         THEN FiscalOfNumber(IntOfDigits(text))
    ELSE ""

\* normalize_month_name without lines 46-49: the text is taken as written
NormalizeMonthNameAsWritten(value) ==
    MonthNameOfKey(RemoveChar(DropMonthSign(value), "."))

NormalizeMonthName(value) ==
    Only({MonthNameOfKey(RemoveChar(DropMonthSign(stripped), ".")) :
          stripped \in {Strip(Lower(Strip(value)))}})

\* normalize_numeric_value of a cell: a float, or None.  (The other currency
\* signs the code removes are not in the modelled alphabet.)
IsParenthesized(text) ==
    Len(text) > 0 /\ CharAt(text, 1) = "(" /\ CharAt(text, Len(text)) = ")"

\* lines 93-102
NumberInText(is_negative, inner) ==
    IF inner = "" \/ inner = "-" THEN None
    ELSE Only({IF num = None THEN None
               ELSE IF is_negative THEN FloatNeg(num) ELSE num :
               num \in {FloatOfText(inner)}})

\* lines 88-93
NumberOfText(text) ==
    IF IsParenthesized(text)
    THEN NumberInText(TRUE, Strip(SubSeq(text, 2, Len(text) - 1)))
    ELSE NumberInText(FALSE, Strip(text))

NormalizeNumericValue(c) ==
    IF c = None \/ IsBlank(c) \/ c = NonFinite(NaN) THEN None
    ELSE IF IsNum(c) THEN Val(c)
    ELSE IF c.t = "x" THEN c.x
    ELSE Only({NumberOfText(text) :
               text \in {Strip(RemoveChar(RemoveChar(c.s, "$"), ","))}})

\* dict.get(key, default) on a row dict
Get(row, key, default) == IF key \in DOMAIN row THEN row[key] ELSE default

\* An OrderedDict is the sequence of its items [month, value].
\* lines 249-255: the non-zero numbers of month i's column over the rows
MonthValues(rows, i) ==
    SelectSeq([r \in 1..Len(rows) |->
                  NormalizeNumericValue(Get(rows[r], MONTH_COLUMNS[i], T("")))],
              LAMBDA v : v # None /\ v.n # 0)

\* lines 247-263: the months that have a value, in fiscal order, each with
\* the sum of its values
SeriesOfRows(current_rows) ==
    Only({[k \in 1..Len(months) |->
              [month |-> FISCAL_MONTHS[months[k]],
               value |-> ValSum(MonthValues(current_rows, months[k]))]] :
          months \in {Ascending({i \in 1..12 : MonthValues(current_rows, i) # <<>>})}})

\* extract_from_ingredient_section: per fiscal month the sum over the rows
\* tagged set_type == 'current' of the non-zero numeric values of its column
ExtractFromIngredientSection(ingredient_data) ==
    Only({IF current_rows = <<>> THEN <<>> ELSE SeriesOfRows(current_rows) :
          current_rows \in
              {SelectSeq(ingredient_data,
                         LAMBDA row : Get(row, "set_type", None) = T("current"))}})

\* the pandas name of a header cell in column j (0-based j - 1)
HeaderName(c, j) ==
    IF IsText(c) THEN c.s
    ELSE IF IsNum(c) THEN NumStr(c, FALSE)
    ELSE "Unnamed: " \o IntStr(j - 1)

\* pd.read_excel / ExcelFile.parse of a sheet whose first row is the header
\* (the sheets of the modelled workbooks have distinct header cells)
ReadSheet(grid) ==
    IF Len(grid) = 0 THEN EmptyFrame
    ELSE [cols |-> [j \in 1..Len(grid[1]) |-> HeaderName(grid[1][j], j)],
          rows |-> Tail(grid)]

\* extract_monthly_series: the row of the product, its columns D..O when the
\* sheet is at least 16 columns wide, else the columns whose header is a month
FirstColValue(sheet, i) ==
    IF NCols(sheet) > 0
    THEN Strip(Lower(CellStr(sheet.rows[i][1], RowAsFloat(sheet, 1))))
    ELSE ""

\* lines 129-135: the rows whose first cell matches the product
ProductRows(sheet, product_lower) ==
    {i \in 1..NRows(sheet) :
        \E v \in {FirstColValue(sheet, i)} :
            Contains(v, product_lower) \/ Contains(product_lower, v)}

\* lines 150-160: method 1, the columns D..O of the row
SeriesByLetter(product_row) ==
    Only({[k \in 1..Len(order) |->
              [month |-> FISCAL_MONTHS[order[k]],
               value |-> NormalizeNumericValue(product_row[3 + order[k]])]] :
          order \in {Ascending({i \in 1..12 :
                        /\ 3 + i <= Len(product_row)
                        /\ NormalizeNumericValue(product_row[3 + i]) # None})}})

\* the month each header names, "" for none
HeaderMonths(sheet) == [j \in 1..NCols(sheet) |-> NormalizeMonthName(sheet.cols[j])]

\* the items of the series over the month columns by_header: a month keeps
\* the place of its first column and the value of its last
HeaderItems(month_of, product_row, by_header) ==
    Only({[k \in 1..Len(order) |->
              [month |-> month_of[order[k]],
               value |-> NormalizeNumericValue(
                   product_row[MaxOf({h \in by_header :
                                         month_of[h] = month_of[order[k]]})])]] :
          order \in {Ascending({j \in by_header :
                        \A h \in by_header : month_of[h] = month_of[j] => j <= h})}})

\* lines 163-173: method 2, the columns whose header is a month
SeriesByHeader(month_of, product_row) ==
    HeaderItems(month_of, product_row,
                {j \in DOMAIN month_of :
                    /\ month_of[j] # ""
                    /\ NormalizeNumericValue(product_row[j]) # None})

\* lines 142-187
SeriesOfRow(sheet, product_row) ==
    Only({IF method1 # <<>> THEN method1
          ELSE IF NCols(sheet) > 0 /\ NRows(sheet) > 0
          THEN Only({SeriesByHeader(month_of, product_row) :
                     month_of \in {HeaderMonths(sheet)}})
          ELSE <<>> :
          method1 \in {IF Len(product_row) >= 16 THEN SeriesByLetter(product_row)
                       ELSE <<>>}})

ExtractMonthlySeries(sheet, product_code) ==
    Only({IF hits = {} THEN <<>> ELSE SeriesOfRow(sheet, sheet.rows[MinOf(hits)]) :
          hits \in {ProductRows(sheet, Strip(Lower(product_code)))}})

(***************************************************************************)
(* views.py: the rows the index view stores, and the lists process_all     *)
(* rebuilds from them.  A row dict is a function from its keys to cells.   *)
(***************************************************************************)
\* lines 77-82: the dict of row i (NaN replaced by ""), tagged with its region
RowDict(grid, regions, i) ==
    [k \in {CharAt(UpperAlpha, j) : j \in 1..GridWidth(grid)}
               \cup {"region", "original_row"} |->
        IF k = "region"
        THEN T(IF i \in DOMAIN regions THEN regions[i] ELSE "unknown")
        ELSE IF k = "original_row" THEN I(i)
        ELSE IF IsBlank(GridRow(grid, i)[IndexIn(k, UpperAlpha)]) THEN T("")
        ELSE GridRow(grid, i)[IndexIn(k, UpperAlpha)]]

\* lines 72-82: data, for the sheet read without a header
IndexData(grid) ==
    Only({[i \in 1..Len(grid) |-> RowDict(grid, regions, i - 1)] :
             regions \in {ParseExcelRegions(grid)}})

\* {k: v for k, v in row.items() if k != 'region' and k <= last}
FilteredRow(row, last) ==
    [k \in {key \in DOMAIN row :
               key # "region" /\ (key = last \/ StrLess(key, last))} |-> row[k]]

\* lines 84 and 520-521: the annual rows but the first
AnnualData(data) ==
    LET rows == SelectSeq(data, LAMBDA row :
                    Get(row, "region", None) \in
                        {T("annual_data"), T("annual_separator")})
        filtered == [i \in 1..Len(rows) |-> FilteredRow(rows[i], "P")]
    IN IF filtered = <<>> THEN <<>> ELSE Tail(filtered)

WithSetType(row, tag) ==
    [k \in DOMAIN row \cup {"set_type"} |->
        IF k = "set_type" THEN T(tag) ELSE row[k]]

\* lines 86-95: the set types the index view gives the annual rows
AnnualSetTypes(annual_data) ==
    LET empty(i) == \A k \in DOMAIN annual_data[i] : annual_data[i][k] = T("")
        data_row_count(i) == Cardinality({h \in 1..(i - 1) : ~empty(h)})
    IN [i \in 1..Len(annual_data) |->
           WithSetType(annual_data[i],
               IF empty(i) THEN "separator"
               ELSE IF data_row_count(i) < AnnualGroup THEN "previous"
               ELSE "current")]

\* lines 99 and 524: ingredients
IngredientKeys ==
    <<"mct360", "mct165", "mctstick10", "mctstick30", "mctstick16", "mctitto_c">>

\* lines 100-109 and 525-535: the rows of one ingredient's region
IngredientRows(data, ing) ==
    LET rows == SelectSeq(data, LAMBDA row :
                    Get(row, "region", T("unknown")) = T("ingredient_" \o ing))
    IN [i \in 1..Len(rows) |-> FilteredRow(rows[i], "Q")]

RECURSIVE TrimTrailing(_)
\* lines 113-116: drop the trailing rows whose C, D, E and F are all ""
TrimTrailing(rows) ==
    IF rows # <<>> /\ \A col \in {"C", "D", "E", "F"} :
                         Get(rows[Len(rows)], col, T("")) = T("")
    THEN TrimTrailing(SubSeq(rows, 1, Len(rows) - 1))
    ELSE rows

\* the set types with the last ten rows looked at before the first eleven
IngredientSetTypesLastFirst(rows) ==
    [i \in 1..Len(rows) |->
        WithSetType(rows[i],
            IF i - 1 >= Len(rows) - 10 THEN "current"
            ELSE IF i - 1 = 0 THEN "header"
            ELSE IF i - 1 <= 10 THEN "previous"
            ELSE "separator")]

\* lines 117-126: the set types the index view gives an ingredient's rows
IngredientSetTypes(rows) ==
    [i \in 1..Len(rows) |->
        WithSetType(rows[i],
            IF i - 1 = 0 THEN "header"
            ELSE IF i - 1 <= 10 THEN "previous"
            ELSE IF i - 1 >= Len(rows) - 10 THEN "current"
            ELSE "separator")]

\* lines 97-126: ingredient_list as the index view renders it
IndexIngredientList(data) ==
    [k \in 1..Len(IngredientKeys) |->
        [ing |-> IngredientKeys[k],
         rows |-> IngredientSetTypes(
                      TrimTrailing(IngredientRows(data, IngredientKeys[k])))]]

\* lines 523-535: ingredient_list as process_all rebuilds it from the snapshot
RebuiltIngredientList(data) ==
    [k \in 1..Len(IngredientKeys) |->
        [ing |-> IngredientKeys[k],
         rows |-> IngredientRows(data, IngredientKeys[k])]]

(***************************************************************************)
(* chart_data_builder.py: extract_real_data_from_excel                     *)
(***************************************************************************)
\* lines 239-246 and 277-284: the flat forecast of a historical series
LegacyForecast(historical) ==
    IF Len(historical) >= 3 THEN MeanOfLast(historical, 3)
    ELSE IF Len(historical) >= 2 THEN MeanOfLast(historical, Len(historical))
    ELSE IF Len(historical) >= 1 THEN historical[Len(historical)]
    ELSE ValZero

\* lines 211-254: the overall series from the annual rows tagged previous or
\* current
OverallOf(tagged, months) ==
    IF months = <<>>
    THEN [months |-> <<>>, historical |-> <<>>, predicted |-> <<>>]
    ELSE Only({[months |-> [k \in 1..Len(months) |-> FISCAL_MONTHS[months[k]]],
                historical |-> historical,
                predicted |-> [k \in 1..6 |-> LegacyForecast(historical)]] :
               historical \in {[k \in 1..Len(months) |->
                                   ValSum(MonthValues(tagged, months[k]))]}})

\* lines 214-228: the months whose values sum to more than zero
OverallMonths(tagged) ==
    Ascending({i \in 1..12 :
        Only({values # <<>> /\ ValSum(values).n > 0 :
              values \in {MonthValues(tagged, i)}})})

OverallSeries(annual_data) ==
    Only({OverallOf(tagged, OverallMonths(tagged)) :
          tagged \in {SelectSeq(annual_data, LAMBDA row :
                         Get(row, "set_type", None) \in
                             {T("previous"), T("current")})}})

\* ing_name.upper() of an ingredient key
UpperKey(ing) == INGREDIENTS[CHOOSE k \in 1..Len(IngredientKeys) : IngredientKeys[k] = ing]

\* lines 257-292: one ingredient's entry, None when it is skipped
ValuesOf(kept) == [k \in 1..Len(kept) |-> kept[k].value]

\* lines 266-292
IngredientEntry(ing, kept) ==
    [code |-> UpperKey(ing),
     months |-> [k \in 1..Len(kept) |-> kept[k].month],
     historical |-> ValuesOf(kept),
     predicted |-> [k \in 1..6 |-> LegacyForecast(ValuesOf(kept))]]

IngredientSeries(item) ==
    IF item.rows = <<>> THEN None
    ELSE Only({IF monthly_series = <<>> THEN None
               ELSE IngredientEntry(item.ing,
                        SelectSeq(monthly_series, LAMBDA entry : entry.value.n > 0)) :
               monthly_series \in {ExtractFromIngredientSection(item.rows)}})

\* extract_real_data_from_excel / build_chart_data_from_workflow4
ExtractRealDataFromExcel(ingredient_list, annual_data) ==
    [overall |-> OverallSeries(annual_data),
     ingredients |->
        SelectSeq([k \in 1..Len(ingredient_list) |->
                      IngredientSeries(ingredient_list[k])],
                  LAMBDA entry : entry # None)]

(***************************************************************************)
(* views.py: process_all_workflows, lines 549-629                          *)
(***************************************************************************)
\* generate_predicted_months for a fiscal month name (the names the legacy
\* builder returns are all in FISCAL_MONTHS)
GeneratePredictedMonths(last_month_name, num_months) ==
    LET last_month_idx == CHOOSE i \in 0..11 : FISCAL_MONTHS[i + 1] = last_month_name
    IN [i \in 1..num_months |-> FISCAL_MONTHS[((last_month_idx + i) % 12) + 1]]

\* one entry of products_chart_data
ChartEntry(product_code, months, historical, predicted) ==
    [product_code |-> product_code,
     sheet_name |-> "Workflow 4",
     historical |-> [k \in 1..Min2(Len(months), Len(historical)) |->
                        [month |-> months[k], value |-> historical[k]]],
     predicted |-> [k \in 1..Len(predicted) |->
                       [month |-> GeneratePredictedMonths(months[Len(months)],
                                                           Len(predicted))[k],
                        value |-> predicted[k]]]]

\* lines 549-629: products_chart_data
ProductsChartData(chart_data_dict) ==
    LET overall == chart_data_dict.overall
        shown == SelectSeq(chart_data_dict.ingredients, LAMBDA ing_data :
                     ing_data.months # <<>> /\ ing_data.historical # <<>>)
    IN (IF overall.months # <<>> /\ overall.historical # <<>>
        THEN <<ChartEntry("OVERALL", overall.months, overall.historical,
                          overall.predicted)>>
        ELSE <<>>)
       \o [k \in 1..Len(shown) |->
              ChartEntry(shown[k].code, shown[k].months, shown[k].historical,
                         shown[k].predicted)]

(***************************************************************************)
(* The workbooks a client uploads: one sheet each, given as its grid       *)
(***************************************************************************)
LongHeader == <<T("Product"), T("Month"), T("Demand"), T("Per Unit Consumption")>>

\* a year of MCT360 demand after one row of another product
BookYear ==
    <<LongHeader, <<T("Other"), T("April"), I(5), F(15, 1)>>>>
        \o [k \in 1..12 |-> <<T("MCT360"), T(FISCAL_MONTHS[k]), I(10 + k), F(25, 1)>>]

\* no per-unit-consumption column
BookNoConsumption ==
    <<<<T("Product"), T("Month"), T("Demand"), T("Notes")>>,
      <<T("MCT360"), T("April"), I(10), T("n/a")>>>>

\* a month label that is no month
BookNoMonth == <<LongHeader, <<T("MCT360"), T("Q1"), I(10), F(25, 1)>>>>

\* the consumption column ahead of the demand column
BookSwapped ==
    <<<<T("Product"), T("Month"), T("Per Unit Consumption"), T("Demand")>>,
      <<T("MCT360"), T("April"), F(25, 1), I(10)>>>>

Books == <<"year", "no_consumption", "no_month", "swapped">>

BookGrids == <<BookYear, BookNoConsumption, BookNoMonth, BookSwapped>>

BookGrid(book) == BookGrids[CHOOSE k \in 1..Len(Books) : Books[k] = book]

(***************************************************************************)
(* views.py: get_chart_data                                                *)
(***************************************************************************)
\* the Workflow 4 sheet of a processed workbook as pandas reads it back: the
\* four headers of write_results_to_original_excel (workflow4.py 473-485),
\* a whole number stored by openpyxl coming back as an int
StoredNumber(n, e) == IF n % Pow10(e) = 0 THEN I(n \div Pow10(e)) ELSE F(n, e)

Workflow4Sheet(forecast_table) ==
    [cols |-> <<"Product", "Forecast Demand", "Per Unit Consumption",
                "Raw Material Needed">>,
     rows |-> [i \in 1..Len(forecast_table) |->
                  <<T(forecast_table[i].Product),
                    StoredNumber(forecast_table[i].ForecastDemand.n, 2),
                    StoredNumber(forecast_table[i].PerUnitConsumption.n, 4),
                    StoredNumber(forecast_table[i].RawMaterialNeeded.n, 2)>>]]

\* lines 729-741 and 806-817: the 'YYYY-MM' keys of a series, the year counted
\* from the current year
HistoricalOf(monthly_series) ==
    [k \in 1..Len(monthly_series) |->
        LET month_num == (CHOOSE i \in 0..11 :
                              FISCAL_MONTHS[i + 1] = monthly_series[k].month) + 4
        IN [month |-> IF month_num > 12 THEN [year |-> 1, month |-> month_num - 12]
                      ELSE [year |-> 0, month |-> month_num],
            value |-> monthly_series[k].value]]

\* lines 752-762 and 826-838: the i-th month after last_month
MonthAfter(last_month, i) ==
    [year |-> last_month.year + ((last_month.month + i - 1) \div 12),
     month |-> ((last_month.month + i - 1) % 12) + 1]

\* lines 709-783: the entry of one product of the Workflow 4 sheet
SheetEntry(product_str, historical, forecast_demand) ==
    [product_code |-> product_str,
     sheet_name |-> "Workflow 4",
     historical |-> historical,
     predicted |-> IF historical = <<>> THEN <<>>
                   ELSE [k \in 1..6 |->
                            [month |-> MonthAfter(historical[Len(historical)].month, k),
                             value |-> forecast_demand]]]

\* the Forecast Demand of the first row that holds the product of row i
ForecastDemandOf(sheet, i) ==
    Val(sheet.rows[MinOf({h \in 1..NRows(sheet) :
                             sheet.rows[h][1] = sheet.rows[i][1]})][2])

SheetProduct(sheet, i) ==
    Only({SheetEntry(product_str,
                     HistoricalOf(ExtractMonthlySeries(sheet, product_str)),
                     ForecastDemandOf(sheet, i)) :
          product_str \in {Strip(CellStr(sheet.rows[i][1], FALSE))}})

\* lines 705-783: products_data from the Workflow 4 sheet, one entry for each
\* distinct product whose name is not blank
SheetProducts(sheet) ==
    Only({[k \in 1..Len(codes) |-> SheetProduct(sheet, codes[k])] :
          codes \in {Ascending({i \in 1..NRows(sheet) :
                        /\ ~IsBlank(sheet.rows[i][1])
                        /\ \A h \in 1..(i - 1) : sheet.rows[h][1] # sheet.rows[i][1]
                        /\ Strip(CellStr(sheet.rows[i][1], FALSE)) # ""})}})

\* a - b and a / b of exact values, b positive
ValSub(a, b) == ValAdd(a, [n |-> -b.n, d |-> b.d])
ValDiv(a, b) == [n |-> a.n * b.d, d |-> a.d * b.n]
ValInt(k) == [n |-> k, d |-> 1]

\* np.polyfit(x, y, 1) for x = 0..n-1 and n >= 2: the slope and the
\* intercept of the least-squares line, exactly
PolyFit(y) ==
    Only({Only({[slope |-> slope,
                 intercept |-> ValDivInt(ValSub(sy, ValMul(slope, ValInt(sx))), Len(y))] :
                slope \in {ValDivInt(ValSub(ValMul(ValInt(Len(y)), sxy),
                                            ValMul(ValInt(sx), sy)),
                                     Len(y) * sxx - sx * sx)}}) :
          sx \in {(Len(y) * (Len(y) - 1)) \div 2},
          sxx \in {((Len(y) - 1) * Len(y) * (2 * Len(y) - 1)) \div 6},
          sy \in {ValSum(y)},
          sxy \in {ValSum([k \in 1..Len(y) |-> ValMul(ValInt(k - 1), y[k])])}})

\* the linear trend without the floor at 0.0
LinearTrendUnfloored(clean_values, num_months) ==
    IF Len(clean_values) >= 2
    THEN Only({[i \in 1..num_months |->
                   ValAdd(ValMul(coeffs.slope, ValInt(Len(clean_values) + i - 1)),
                          coeffs.intercept)] :
               coeffs \in {PolyFit(clean_values)}})
    ELSE [i \in 1..num_months |-> clean_values[Len(clean_values)]]

\* lines 108-120 of predict_next_months: method 'linear_trend'
LinearTrend(clean_values, num_months) ==
    IF Len(clean_values) >= 2
    THEN Only({[i \in 1..num_months |->
                   ValMax0(ValAdd(ValMul(coeffs.slope,
                                         ValInt(Len(clean_values) + i - 1)),
                                  coeffs.intercept))] :
               coeffs \in {PolyFit(clean_values)}})
    ELSE [i \in 1..num_months |-> clean_values[Len(clean_values)]]

\* prediction_utils.predict_next_months(values, num_months, method)
PredictNextMonths(values, num_months, method) ==
    Only({IF clean_values = <<>> THEN [k \in 1..num_months |-> ValZero]
          ELSE IF method = "moving_average"
          THEN [k \in 1..num_months |->
                   ValMax0(MeanOfLast(clean_values, Min2(3, Len(clean_values))))]
          ELSE IF method = "linear_trend" THEN LinearTrend(clean_values, num_months)
          ELSE <<>> :
          clean_values \in {SelectSeq(values, LAMBDA v : v.n > 0)}})

\* s.startswith(t)
StartsWith(s, t) == Len(s) >= Len(t) /\ SubSeq(s, 1, Len(t)) = t

\* lines 786-845: products_data from the stored snapshot
SnapshotRows(data, ing) ==
    SelectSeq(data, LAMBDA row :
        StartsWith(Get(row, "region", T("")).s, "ingredient_" \o ing))

\* lines 819-845: the entry of one ingredient
SnapshotEntry(ing, historical) ==
    [product_code |-> UpperKey(ing),
     sheet_name |-> "Ingredient Section",
     historical |-> historical,
     predicted |-> IF historical = <<>> THEN <<>>
                   ELSE [p \in 1..6 |->
                            [month |-> MonthAfter(historical[Len(historical)].month, p),
                             value |-> PredictNextMonths(
                                           [h \in 1..Len(historical) |->
                                               historical[h].value], 6, "moving_average")[p]]]]

SnapshotProduct(data, ing) ==
    Only({SnapshotEntry(ing, historical) :
          historical \in {HistoricalOf(ExtractFromIngredientSection(
                                           SnapshotRows(data, ing)))}})

SnapshotProducts(data) ==
    Only({[k \in 1..Len(listed) |-> SnapshotProduct(data, IngredientKeys[listed[k]])] :
          listed \in {Ascending({k \in 1..Len(IngredientKeys) :
                         SnapshotRows(data, IngredientKeys[k]) # <<>>})}})

(***************************************************************************)
(* What each workbook yields, computed once per workbook                   *)
(***************************************************************************)
BookNumber(book) == CHOOSE k \in 1..Len(Books) : Books[k] = book

\* _normalize_input_dataframe of the first sheet
NormalizedBooks ==
    [k \in 1..Len(Books) |-> NormalizeInputDataframe(ReadSheet(BookGrids[k]))]

\* _build_forecast_tables of the normalized table; the workbooks hold no two
\* rows of one product and month, so the sort leaves one order
ForecastOf(normalized) ==
    BuildForecastTables(normalized.table, [i \in 1..Len(normalized.table) |-> i])

ForecastBooks == [k \in 1..Len(Books) |-> ForecastOf(NormalizedBooks[k])]

\* the data the index view stores for the workbook
SnapshotBooks == [k \in 1..Len(Books) |-> IndexData(BookGrids[k])]

\* products_chart_data of process_all for the stored data
RebuiltChart(data) ==
    ProductsChartData(
        ExtractRealDataFromExcel(RebuiltIngredientList(data), AnnualData(data)))

RebuiltChartBooks == [k \in 1..Len(Books) |-> RebuiltChart(SnapshotBooks[k])]

\* products_data of get_chart_data from the workbook's Workflow 4 sheet
SheetProductBooks ==
    [k \in 1..Len(Books) |->
        SheetProducts(Workflow4Sheet(ForecastBooks[k].forecast_table))]

\* products_data of get_chart_data from the stored data
SnapshotProductBooks == [k \in 1..Len(Books) |-> SnapshotProducts(SnapshotBooks[k])]

(***************************************************************************)
(* The web application.  uploads: the UploadedExcelFile rows in id order,  *)
(* each with its workbook and the mtime of its file; snapshots: the       *)
(* ProcessedData rows in id order, each with the id of its upload and the  *)
(* handler that stored its data;                                           *)
(* processed: the files processed_<id>_<timestamp>.xlsx by <<id,           *)
(* timestamp>>; finals: final_output_<timestamp>.xlsx by timestamp;        *)
(* charts: the request whose data each of the two chart files was drawn    *)
(* from; clock: datetime.now() in seconds; stamp: the next st_mtime;       *)
(* reqs: the requests received, each at its position in its handler.       *)
(***************************************************************************)
STAGES == <<"Load", "Normalize", "Forecast", "WriteWorkbook", "RenderCharts", "Summarize">>

\* workflow4.py 538-539 and 576-579: the chart files and the paths returned
ChartFiles == {"demand_plot.png", "raw_material_plot.png"}

\* chart files named after the run that renders them
ChartPathsOfRun(run) ==
    [demand |-> "charts/demand_plot_" \o IntStr(run) \o ".png",
     raw_material |-> "charts/raw_material_plot_" \o IntStr(run) \o ".png"]

\* lines 576-579: the paths every run returns
ChartPaths(run) ==
    [demand |-> "charts/demand_plot.png", raw_material |-> "charts/raw_material_plot.png"]

NoCharts == [demand |-> "", raw_material |-> ""]

FileIds == {"", "1", "2", "abc"}

Request(route, method, file_id, book) ==
    [route |-> route, method |-> method, file_id |-> file_id, book |-> book,
     pc |-> "start", upload |-> 0, stages |-> <<>>, wrote |-> {},
     final |-> -1, charts |-> NoCharts, summary |-> None, timestamp |-> -1,
     status |-> 0, error |-> "", failed |-> "", body |-> None]

Init == PureIdle /\ WebIdle

CanStart ==
    /\ Len(reqs) < MaxRequests
    /\ Cardinality({r \in 1..Len(reqs) : reqs[r].pc # "done"}) < MaxConcurrent

\* UploadedExcelFile.objects.get(id=file_id): the id, 0 for DoesNotExist
\* (a file_id that is no number raises ValueError instead)
UploadOf(file_id) ==
    IF IntOfDigits(file_id) \in 1..Len(uploads) THEN IntOfDigits(file_id) ELSE 0

Answer(req, status, error, failed, body) ==
    [req EXCEPT !.pc = "done", !.status = status, !.error = error,
                !.failed = failed, !.body = body]

\* the wall clock moves on by a second
Tick ==
    /\ clock < MaxClock
    /\ clock' = clock + 1
    /\ UNCHANGED <<pureVars, uploads, snapshots, processed, finals, charts, stamp, reqs>>

\* index, lines 67-69: a POST with a workbook saves the upload
IndexUpload(book) ==
    /\ CanStart
    /\ uploads' = Append(uploads, [book |-> book, mtime |-> stamp])
    /\ stamp' = stamp + 1
    /\ reqs' = Append(reqs, [Request("index", "POST", "", book) EXCEPT
                                !.upload = Len(uploads) + 1, !.pc = "parse"])
    /\ UNCHANGED <<pureVars, snapshots, processed, finals, charts, clock>>

\* index, lines 70-158: the sheet is parsed and its rows stored
IndexStore(r) ==
    /\ reqs[r].route = "index" /\ reqs[r].pc = "parse"
    /\ snapshots' = Append(snapshots, [original_file |-> reqs[r].upload, data |-> "index"])
    /\ reqs' = [reqs EXCEPT ![r] = Answer(@, 200, "", "", None)]
    /\ UNCHANGED <<pureVars, uploads, processed, finals, charts, clock, stamp>>

\* workflow4_view, lines 356-364: a POST with a workbook saves the upload and
\* starts a pipeline run; one without a workbook is answered with an error
Workflow4Upload(book) ==
    /\ CanStart
    /\ IF book = ""
       THEN /\ reqs' = Append(reqs, Answer(Request("workflow4", "POST", "", book),
                                          200, "", "", [error |-> "no file"]))
            /\ UNCHANGED <<uploads, stamp>>
       ELSE /\ uploads' = Append(uploads, [book |-> book, mtime |-> stamp])
            /\ stamp' = stamp + 1
            /\ reqs' = Append(reqs, [Request("workflow4", "POST", "", book) EXCEPT
                                        !.upload = Len(uploads) + 1, !.pc = "load"])
    /\ UNCHANGED <<pureVars, snapshots, processed, finals, charts, clock>>

\* process_all_workflows, lines 472-481: the request is checked and its
\* upload looked up
ProcessAll(method, file_id) ==
    /\ CanStart
    /\ reqs' = Append(reqs,
          LET req == Request("process_all", method, file_id, "")
          IN IF method # "POST" THEN Answer(req, 400, "", "method", None)
             ELSE IF file_id = "" THEN Answer(req, 400, "", "file_id", None)
             ELSE IF ~IsDigits(file_id)
                  THEN Answer(req, 400, "ValueError", "lookup", None)
             ELSE IF UploadOf(file_id) = 0
                  THEN Answer(req, 404, "DoesNotExist", "lookup", None)
             ELSE [req EXCEPT !.upload = UploadOf(file_id), !.pc = "load",
                              !.book = uploads[UploadOf(file_id)].book])
    /\ UNCHANGED <<pureVars, uploads, snapshots, processed, finals, charts, clock, stamp>>

At(r, place) == reqs[r].pc = place

\* ProcessedData.objects.filter(original_file=upload): the ids of its rows
SnapshotsOf(upload) == {k \in DOMAIN snapshots : snapshots[k].original_file = upload}

\* .first() of that query: the row of the least id
FirstSnapshot(upload) == snapshots[MinOf(SnapshotsOf(upload))]

\* the rows upload_excel stored carry no region, which leaves the rebuilt
\* series of process_all and of get_chart_data what they are for no rows
RebuiltChartNoRegion == RebuiltChart(<<>>)

SnapshotProductsNoRegion == SnapshotProducts(<<>>)

\* a handler that answers every exception of process_all as unexpected
RaisedAsUnexpected(req, error, stage) ==
    IF req.route = "process_all" THEN Answer(req, 500, error, stage, None)
    ELSE Answer(req, 200, error, stage, [error |-> error])

\* how a handler answers an exception a pipeline stage raised: process_all
\* (lines 646-651) with 400 for a ValueError and 500 otherwise, workflow4_view
\* (lines 374-377) with the page and an error message
Raised(req, error, stage) ==
    IF req.route = "process_all"
    THEN Answer(req, IF error = "ValueError" THEN 400 ELSE 500, error, stage, None)
    ELSE Answer(req, 200, error, stage, [error |-> error])

Entered(req, stage) == [req EXCEPT !.stages = Append(@, stage)]

\* a stage that returned moves the run on; one that raised ends the request
Staged(req, stage, status, next) ==
    IF status = "ok" THEN [Entered(req, stage) EXCEPT !.pc = next]
    ELSE Raised(Entered(req, stage), status, stage)

\* run_workflow4_pipeline, lines 131-141: the workbook and its first sheet
Load(r) ==
    /\ At(r, "load")
    /\ reqs' = [reqs EXCEPT ![r] = [Entered(@, "Load") EXCEPT !.pc = "normalize"]]
    /\ UNCHANGED <<pureVars, uploads, snapshots, processed, finals, charts, clock, stamp>>

\* run_workflow4_pipeline, line 142
RunNormalize(r) ==
    /\ At(r, "normalize")
    /\ reqs' = [reqs EXCEPT ![r] =
          Staged(@, "Normalize", NormalizedBooks[BookNumber(@.book)].status,
                 "forecast")]
    /\ UNCHANGED <<pureVars, uploads, snapshots, processed, finals, charts, clock, stamp>>

\* run_workflow4_pipeline, line 143
RunForecast(r) ==
    /\ At(r, "forecast")
    /\ reqs' = [reqs EXCEPT ![r] =
          Staged(@, "Forecast", ForecastBooks[BookNumber(@.book)].status,
                 "write_workbook")]
    /\ UNCHANGED <<pureVars, uploads, snapshots, processed, finals, charts, clock, stamp>>

\* _write_final_excel: the original plus the Workflow 4 sheet, saved under the
\* current second
WriteWorkbook(r) ==
    /\ At(r, "write_workbook")
    /\ finals' = [finals EXCEPT ![clock] = r]
    /\ reqs' = [reqs EXCEPT ![r] =
          [Entered(@, "WriteWorkbook") EXCEPT
              !.final = clock, !.wrote = @ \cup {"final_output"},
              !.pc = "render_demand"]]
    /\ UNCHANGED <<pureVars, uploads, snapshots, processed, charts, clock, stamp>>

\* _generate_charts, lines 537-561: the demand chart
RenderDemand(r) ==
    /\ At(r, "render_demand")
    /\ charts' = [charts EXCEPT !.demand = r]
    /\ reqs' = [reqs EXCEPT ![r] =
          [Entered(@, "RenderCharts") EXCEPT
              !.wrote = @ \cup {"demand_plot.png"}, !.pc = "render_raw_material"]]
    /\ UNCHANGED <<pureVars, uploads, snapshots, processed, finals, clock, stamp>>

\* _generate_charts, lines 562-579: the raw material chart, and the paths
RenderRawMaterial(r) ==
    /\ At(r, "render_raw_material")
    /\ charts' = [charts EXCEPT !.raw_material = r]
    /\ reqs' = [reqs EXCEPT ![r].wrote = @ \cup {"raw_material_plot.png"},
                            ![r].charts = ChartPaths(r),
                            ![r].pc = "summarize"]
    /\ UNCHANGED <<pureVars, uploads, snapshots, processed, finals, clock, stamp>>

\* run_workflow4_pipeline, lines 147-152: summary
SummaryOf(forecast_table) ==
    [products |-> Len(forecast_table),
     total_forecast |->
        ValSum([i \in 1..Len(forecast_table) |-> forecast_table[i].ForecastDemand]),
     total_raw_material |->
        ValSum([i \in 1..Len(forecast_table) |-> forecast_table[i].RawMaterialNeeded])]

\* run_workflow4_pipeline, lines 147-160: the summary and the result
Summarize(r) ==
    /\ At(r, "summarize")
    /\ reqs' = [reqs EXCEPT ![r] =
          [Entered(@, "Summarize") EXCEPT
              !.summary = SummaryOf(
                  ForecastBooks[BookNumber(reqs[r].book)].forecast_table),
              !.pc = IF reqs[r].route = "process_all" THEN "copy" ELSE "context"]]
    /\ UNCHANGED <<pureVars, uploads, snapshots, processed, finals, charts, clock, stamp>>

\* workflow4_view, lines 372-378 with _build_workflow4_context
Workflow4Context(r) ==
    /\ At(r, "context")
    /\ reqs' = [reqs EXCEPT ![r] =
          Answer(@, 200, "", "",
                 [charts |-> @.charts, final |-> @.final, summary |-> @.summary])]
    /\ UNCHANGED <<pureVars, uploads, snapshots, processed, finals, charts, clock, stamp>>

\* the processed file of a process_all request
OutputOf(req) == <<req.file_id, req.timestamp>>

WriteFile(name, file) ==
    [n \in DOMAIN processed \cup {name} |-> IF n = name THEN file ELSE processed[n]]

\* process_all_workflows, lines 494-499: the name is fixed by the current
\* second, and shutil.copy2 opens (creates or truncates) the destination
CopyBegin(r) ==
    /\ At(r, "copy")
    /\ \E name \in {<<reqs[r].file_id, clock>>} :
          processed' = WriteFile(name,
              [state |-> "partial", by |-> 0, mtime |-> stamp,
               copiers |-> IF name \in DOMAIN processed
                           THEN processed[name].copiers + 1 ELSE 1])
    /\ stamp' = stamp + 1
    /\ reqs' = [reqs EXCEPT ![r].timestamp = clock, ![r].pc = "copying"]
    /\ UNCHANGED <<pureVars, uploads, snapshots, finals, charts, clock>>

\* shutil.copy2 finishes: the bytes of the original are in place, and the
\* original's mtime is copied onto the destination
CopyEnd(r) ==
    /\ At(r, "copying")
    /\ \E name \in {OutputOf(reqs[r])} :
          processed' = WriteFile(name,
              IF processed[name].copiers = 1
              THEN [state |-> "copied", by |-> 0,
                    mtime |-> uploads[reqs[r].upload].mtime, copiers |-> 0]
              ELSE [processed[name] EXCEPT !.copiers = @ - 1])
    /\ reqs' = [reqs EXCEPT ![r].pc = "patch"]
    /\ UNCHANGED <<pureVars, uploads, snapshots, finals, charts, clock, stamp>>

\* write_results_to_original_excel: load the copy, replace its Workflow 4
\* sheet, save.  A copy another request is still writing may or may not load;
\* any exception is raised again as a ValueError.
Patch(r) ==
    /\ At(r, "patch")
    /\ \/ /\ processed[OutputOf(reqs[r])].state = "partial"
          /\ reqs' = [reqs EXCEPT ![r] = Raised(@, "ValueError", "write")]
          /\ UNCHANGED <<processed, stamp>>
       \/ /\ processed' = [processed EXCEPT ![OutputOf(reqs[r])] =
                              [@ EXCEPT !.state = "patched", !.by = r,
                                        !.mtime = stamp]]
          /\ stamp' = stamp + 1
          /\ reqs' = [reqs EXCEPT ![r].wrote = @ \cup {"processed"},
                                  ![r].pc = "respond"]
    /\ UNCHANGED <<pureVars, uploads, snapshots, finals, charts, clock>>

\* process_all_workflows, lines 508-645: the chart series rebuilt from the
\* stored rows, and the answer
Respond(r) ==
    /\ At(r, "respond")
    /\ reqs' = [reqs EXCEPT ![r] =
          Answer(@, 200, "", "",
                 [download |-> OutputOf(@),
                  summary |-> @.summary,
                  stored |-> SnapshotsOf(@.upload) # {},
                  products |-> IF SnapshotsOf(@.upload) = {} THEN <<>>
                               ELSE IF FirstSnapshot(@.upload).data = "index"
                               THEN RebuiltChartBooks[BookNumber(@.book)]
                               ELSE RebuiltChartNoRegion])]
    /\ UNCHANGED <<pureVars, uploads, snapshots, processed, finals, charts, clock, stamp>>

\* processed_dir.glob(f"processed_{file_id}_*.xlsx")
MatchingFiles(file_id) == {n \in DOMAIN processed : n[1] = file_id}

\* max(matching_files, key=st_mtime): any of the files of the latest mtime
LatestFiles(file_id) ==
    {n \in MatchingFiles(file_id) :
        \A m \in MatchingFiles(file_id) : processed[m].mtime <= processed[n].mtime}

\* download_final_file
DownloadFinal(file_id) ==
    /\ CanStart
    /\ \E req \in {Request("download_final", "GET", file_id, "")} :
          IF UploadOf(file_id) = 0
          THEN reqs' = Append(reqs, Answer(req, 404, "DoesNotExist", "lookup", None))
          ELSE IF MatchingFiles(file_id) = {}
          THEN reqs' = Append(reqs, Answer(req, 404, "", "glob", None))
          ELSE \E latest_file \in LatestFiles(file_id) :
                  reqs' = Append(reqs,
                      Answer(req, 200, "", "",
                             [name |-> latest_file,
                              state |-> processed[latest_file].state,
                              by |-> processed[latest_file].by]))
    /\ UNCHANGED <<pureVars, uploads, snapshots, processed, finals, charts, clock, stamp>>

\* get_chart_data, lines 786-789: products_data from the stored rows
FromSnapshot(upload) ==
    IF SnapshotsOf(upload) = {} THEN <<>>
    ELSE IF FirstSnapshot(upload).data = "index"
    THEN SnapshotProductBooks[BookNumber(uploads[upload].book)]
    ELSE SnapshotProductsNoRegion

Unreadable == -1

\* what get_chart_data finds on opening the latest processed file: the run
\* whose Workflow 4 sheet it holds, 0 for no such sheet or no file at all,
\* Unreadable for a file that does not open.  A file another request is still
\* copying may fail to open or be read as the copy it is becoming.
Readings(file_id) ==
    IF MatchingFiles(file_id) = {} THEN {0}
    ELSE UNION {IF processed[latest_file].state = "partial" THEN {Unreadable, 0}
                ELSE IF processed[latest_file].state = "patched"
                     THEN {processed[latest_file].by}
                ELSE {0} :
                latest_file \in LatestFiles(file_id)}

\* lines 705-845: products_data, from the sheet or else from the stored rows
ChartProducts(upload, sheet) ==
    IF sheet # 0 THEN SheetProductBooks[BookNumber(reqs[sheet].book)]
    ELSE FromSnapshot(upload)

\* get_chart_data
ChartData(file_id) ==
    /\ CanStart
    /\ \E req \in {Request("chart_data", "GET", file_id, "")} :
          IF UploadOf(file_id) = 0
          THEN reqs' = Append(reqs, Answer(req, 404, "DoesNotExist", "lookup", None))
          ELSE \E sheet \in Readings(file_id) :
                  reqs' = Append(reqs,
                      IF sheet = Unreadable
                      THEN Answer(req, 500, "BadZipFile", "read", None)
                      ELSE Answer(req, 200, "", "",
                               [sheet |-> sheet,
                                products |-> ChartProducts(UploadOf(file_id), sheet)]))
    /\ UNCHANGED <<pureVars, uploads, snapshots, processed, finals, charts, clock, stamp>>

BookSet == {Books[k] : k \in 1..Len(Books)}

\* the forms of a /process-all/ request
ProcessAllForms == {<<"GET", "1">>} \cup {<<"POST", file_id>> : file_id \in FileIds}

Next ==
    \/ Tick
    \/ \E book \in BookSet : IndexUpload(book)
    \/ \E book \in BookSet \cup {""} : Workflow4Upload(book)
    \/ \E form \in ProcessAllForms : ProcessAll(form[1], form[2])
    \/ \E file_id \in {"1", "2"} : DownloadFinal(file_id)
    \/ \E file_id \in {"1", "2"} : ChartData(file_id)
    \/ \E r \in 1..Len(reqs) : IndexStore(r)
    \/ \E r \in 1..Len(reqs) : Load(r)
    \/ \E r \in 1..Len(reqs) : RunNormalize(r)
    \/ \E r \in 1..Len(reqs) : RunForecast(r)
    \/ \E r \in 1..Len(reqs) : WriteWorkbook(r)
    \/ \E r \in 1..Len(reqs) : RenderDemand(r)
    \/ \E r \in 1..Len(reqs) : RenderRawMaterial(r)
    \/ \E r \in 1..Len(reqs) : Summarize(r)
    \/ \E r \in 1..Len(reqs) : Workflow4Context(r)
    \/ \E r \in 1..Len(reqs) : CopyBegin(r)
    \/ \E r \in 1..Len(reqs) : CopyEnd(r)
    \/ \E r \in 1..Len(reqs) : Patch(r)
    \/ \E r \in 1..Len(reqs) : Respond(r)

Spec == Init /\ [][Next]_vars

(***************************************************************************)
(* Properties of the web application, checked under Spec                   *)
(***************************************************************************)
\* the requests a route has received, and the ones already answered
Runs(route) == {r \in 1..Len(reqs) : reqs[r].route = route}
Answered(r) == reqs[r].pc = "done"
Succeeded(r) == Answered(r) /\ reqs[r].status = 200 /\ reqs[r].error = ""

\* C1: once a /process-all/ run has answered, the file it named holds a
\* complete workbook patched with that run's Workflow 4 sheet, whatever
\* another run for the same upload does, the same second included: no other
\* run overwrites it or leaves it copied but unpatched.
C1_AnsweredOutputStaysPatched ==
    \A r \in Runs("process_all") :
        Succeeded(r) =>
            /\ processed[reqs[r].body.download].state = "patched"
            /\ processed[reqs[r].body.download].by = r

IsPrefix(s, t) == Len(s) <= Len(t) /\ s = SubSeq(t, 1, Len(s))

\* C2: a pipeline run enters its stages in the order Load, Normalize,
\* Forecast, WriteWorkbook, RenderCharts, Summarize, and a run that Normalize
\* or Forecast fails ends with a ValueError having written no workbook file
\* and no chart file.
C2_StagesInOrderAndFailuresValueError ==
    \A r \in 1..Len(reqs) :
        /\ IsPrefix(reqs[r].stages, STAGES)
        /\ reqs[r].failed \in {"Normalize", "Forecast"} =>
              reqs[r].error = "ValueError" /\ reqs[r].wrote = {}

\* the two files every run is said to render into
FixedChartPaths ==
    [demand |-> "charts/demand_plot.png", raw_material |-> "charts/raw_material_plot.png"]

Rendered(r) == "raw_material_plot.png" \in reqs[r].wrote

\* C3: every pipeline run that has rendered its charts wrote both chart files
\* and returns the same two fixed paths, so each file shows the run that
\* rendered it last, whichever run reads the paths.
C3_ChartsInTheSameTwoFiles ==
    \A r \in 1..Len(reqs) :
        Rendered(r) =>
            /\ ChartFiles \subseteq reqs[r].wrote
            /\ reqs[r].charts = FixedChartPaths
            /\ charts.demand \in 1..Len(reqs) /\ Rendered(charts.raw_material)

\* C3, its case: run A has answered with the chart paths while both files
\* hold the images of another run B, of another upload
C3_PathsOfOneRunShowAnother ==
    \E a, b \in 1..Len(reqs) :
        /\ a # b /\ reqs[a].upload # 0 /\ reqs[a].upload # reqs[b].upload
        /\ Succeeded(a) /\ reqs[a].route = "workflow4"
        /\ reqs[a].body.charts = FixedChartPaths
        /\ charts.demand = b /\ charts.raw_material = b

\* whether the run reached the end of the pipeline and of the write-back
Completed(req) == req.stages = STAGES /\ "processed" \in req.wrote

\* the status the claim as written calls for: 404 for an id that names no
\* upload, 400 for a normalization or forecast ValueError, 500 for any other
\* exception
ClaimedStatus(req) ==
    IF req.method # "POST" \/ req.file_id = "" THEN 400
    ELSE IF req.upload = 0 THEN 404
    ELSE IF req.error = "ValueError" /\ req.failed \in {"Normalize", "Forecast"}
         THEN 400
    ELSE IF req.error # "" THEN 500
    ELSE 200

PipelineError(book) ==
    IF NormalizedBooks[BookNumber(book)].status # "ok"
    THEN NormalizedBooks[BookNumber(book)].status
    ELSE IF ForecastBooks[BookNumber(book)].status # "ok"
    THEN ForecastBooks[BookNumber(book)].status
    ELSE ""

\* the status by the request and what its handling met
AmendedStatus(req) ==
    IF req.method # "POST" \/ req.file_id = "" THEN 400
    ELSE IF ~IsDigits(req.file_id) THEN 400
    ELSE IF req.upload = 0 THEN 404
    ELSE IF PipelineError(req.book) = "ValueError" THEN 400
    ELSE IF PipelineError(req.book) # "" THEN 500
    ELSE IF req.failed = "write" THEN 400
    ELSE 200

CurrentNumericBooks ==
    {k \in 1..Len(Books) :
        \E item \in {IndexIngredientList(SnapshotBooks[k])[i] :
                        i \in 1..Len(IngredientKeys)} :
            \E j \in 1..Len(item.rows) :
                /\ item.rows[j]["set_type"] = T("current")
                /\ \E m \in 1..12 :
                      /\ MONTH_COLUMNS[m] \in DOMAIN item.rows[j]
                      /\ IsNum(item.rows[j][MONTH_COLUMNS[m]])}

\* C5: for an upload the index route has stored, whose ingredient blocks hold
\* 'current' rows with numeric month values, /process-all/ returns a
\* non-empty list of per-product chart series.
C5_ProcessAllReturnsChartSeries ==
    \A r \in Runs("process_all") :
        (/\ Succeeded(r)
         /\ reqs[r].body.stored
         /\ BookNumber(reqs[r].book) \in CurrentNumericBooks)
            => reqs[r].body.products # <<>>

\* the predicted entries are six, of consecutive months, each of the value
SixFlatMonths(predicted, value) ==
    /\ Len(predicted) = 6
    /\ \A k \in 1..6 : ValEq(predicted[k].value, value)
    /\ \A k \in 2..6 : predicted[k].month = MonthAfter(predicted[k - 1].month, 1)

\* C6: when /chart-data/<id>/ reads a processed workbook with a Workflow 4
\* sheet, it returns for every product of the sheet six predicted entries,
\* for six consecutive months, each equal to the product's Forecast Demand.
C6_SixPredictedPerSheetProduct ==
    \A r \in Runs("chart_data") :
        (Succeeded(r) /\ reqs[r].body.sheet # 0) =>
            \E table \in {ForecastBooks[BookNumber(
                              reqs[reqs[r].body.sheet].book)].forecast_table} :
                /\ Len(reqs[r].body.products) = Len(table)
                /\ \A i \in 1..Len(table) :
                      /\ reqs[r].body.products[i].product_code = table[i].Product
                      /\ SixFlatMonths(reqs[r].body.products[i].predicted,
                                       table[i].ForecastDemand)

(***************************************************************************)
(* workflow4.py: writing the forecast into the workbook.  A workbook is    *)
(* the sequence of its sheets, each a title with its columns and rows; the *)
(* titles of the workbooks considered differ by more than letter case.     *)
(***************************************************************************)
SheetNames(wb) == [k \in 1..Len(wb) |-> wb[k].title]

HasSheet(wb, title) == \E k \in 1..Len(wb) : wb[k].title = title

\* wb.remove(wb[title])
RemoveSheet(wb, title) == SelectSeq(wb, LAMBDA ws : ws.title # title)

\* wb.create_sheet(title) and the cells written to it: the sheet goes last
CreateSheet(wb, title, content) ==
    Append(wb, [title |-> title, cols |-> content.cols, rows |-> content.rows])

\* the write that leaves a pre-existing "Workflow 4" sheet in the workbook
WriteResultsKeepingOldSheet(original, forecast_table) ==
    [status |-> "ok",
     book |-> CreateSheet(original, "Workflow 4", Workflow4Sheet(forecast_table))]

\* write_results_to_original_excel: the workbook saved at output_path; a
\* workbook that cannot be loaded is not among the inputs
WriteResultsToOriginalExcel(original, forecast_table) ==
    [status |-> "ok",
     book |-> CreateSheet(IF HasSheet(original, "Workflow 4")
                          THEN RemoveSheet(original, "Workflow 4")
                          ELSE original,
                          "Workflow 4", Workflow4Sheet(forecast_table))]

\* lines 397-425 of _write_final_excel: what is written to the new sheet
FinalSheetContent(workflow_outputs) ==
    IF "Workflow 4" \in DOMAIN workflow_outputs /\ workflow_outputs["Workflow 4"] # <<>>
    THEN Workflow4Sheet(workflow_outputs["Workflow 4"])
    ELSE [cols |-> <<>>, rows |-> <<>>]

\* _write_final_excel given an original workbook that exists and loads: the
\* workbook saved as final_output_<timestamp>.xlsx
WriteFinalExcel(workflow_outputs, original) ==
    [status |-> "ok",
     book |-> CreateSheet(IF HasSheet(original, "Workflow 4")
                          THEN RemoveSheet(original, "Workflow 4")
                          ELSE original,
                          "Workflow 4", FinalSheetContent(workflow_outputs))]

\* the workbooks written to: up to MaxSheets sheets, in any order
MaxSheets == 3

WbTitles == {"Data", "Summary", "Workflow 1", "Workflow 4"}

WbSheet(title) ==
    [title |-> title, cols |-> <<"Product", "Note">>,
     rows |-> <<<<T("MCT360"), T("kept in " \o title)>>>>]

WbTitleOrders ==
    UNION {{t \in [1..n -> WbTitles] : \A j, k \in 1..n : j # k => t[j] # t[k]} :
           n \in 1..MaxSheets}

WbBooks == {[k \in 1..Len(titles) |-> WbSheet(titles[k])] : titles \in WbTitleOrders}

\* a record of the forecast table: the demand and the raw material in
\* hundredths, the consumption per unit in ten-thousandths
WbForecast(product, demand, per_unit, raw_material) ==
    [Product |-> product,
     ForecastDemand |-> [n |-> demand, d |-> 100],
     PerUnitConsumption |-> [n |-> per_unit, d |-> 10000],
     RawMaterialNeeded |-> [n |-> raw_material, d |-> 100]]

WbTables ==
    {<<WbForecast("MCT360", 11000, 25000, 27500)>>,
     <<WbForecast("MCT360", 11000, 25000, 27500),
       WbForecast("MCT710", 1250, 5000, 625)>>}

\* the workflow outputs of run_workflow4_pipeline (lines 145-147): the
\* forecast under "Workflow 4", beside the placeholder of an earlier stage
WbOutputs ==
    {[name \in {"Workflow 1", "Workflow 4"} |->
         IF name = "Workflow 4" THEN table ELSE <<>>] : table \in WbTables}

InitWorkbook ==
    /\ \/ fnCall \in {[fn |-> "write_results_to_original_excel", original |-> wb,
                       forecast_table |-> table] : wb \in WbBooks, table \in WbTables}
       \/ fnCall \in {[fn |-> "_write_final_excel", original |-> wb,
                       workflow_outputs |-> outputs] :
                          wb \in WbBooks, outputs \in WbOutputs}
    /\ fnOut = None
    /\ nzFrame = None /\ nzOut = None
    /\ fcIn = <<>> /\ fcTie = <<>> /\ fcOut = None
    /\ rgSheet = None /\ rgOut = None
    /\ WebIdle

WriteResults ==
    /\ fnCall.fn = "write_results_to_original_excel" /\ fnOut = None
    /\ fnOut' = WriteResultsToOriginalExcel(fnCall.original, fnCall.forecast_table)
    /\ UNCHANGED <<nzFrame, nzOut, fcIn, fcTie, fcOut, rgSheet, rgOut, fnCall, webVars>>

WriteFinal ==
    /\ fnCall.fn = "_write_final_excel" /\ fnOut = None
    /\ fnOut' = WriteFinalExcel(fnCall.workflow_outputs, fnCall.original)
    /\ UNCHANGED <<nzFrame, nzOut, fcIn, fcTie, fcOut, rgSheet, rgOut, fnCall, webVars>>

NextWorkbook ==
    \/ WriteResults
    \/ WriteFinal

SpecWorkbook == InitWorkbook /\ [][NextWorkbook]_vars

\* the forecast table a write was given
WrittenTable ==
    IF fnCall.fn = "write_results_to_original_excel" THEN fnCall.forecast_table
    ELSE fnCall.workflow_outputs["Workflow 4"]

\* the same write applied to the workbook wb
WriteAgain(wb) ==
    IF fnCall.fn = "write_results_to_original_excel"
    THEN WriteResultsToOriginalExcel(wb, fnCall.forecast_table)
    ELSE WriteFinalExcel(fnCall.workflow_outputs, wb)

\* the sheet holds the records of the table, one row each
HoldsRecords(ws, table) ==
    /\ Len(ws.rows) = Len(table)
    /\ \A i \in 1..Len(table) :
          /\ ws.rows[i][1] = T(table[i].Product)
          /\ ValEq(Val(ws.rows[i][2]), table[i].ForecastDemand)
          /\ ValEq(Val(ws.rows[i][3]), table[i].PerUnitConsumption)
          /\ ValEq(Val(ws.rows[i][4]), table[i].RawMaterialNeeded)

Written ==
    /\ fnCall # None /\ fnOut # None
    /\ fnCall.fn \in {"write_results_to_original_excel", "_write_final_excel"}

UpperMap ==
    [c \in {CharAt(LowerAlpha, i) : i \in 1..Len(LowerAlpha)} |->
        CharAt(UpperAlpha, IndexIn(c, LowerAlpha))]

UpperChar(c) == IF c \in DOMAIN UpperMap THEN UpperMap[c] ELSE c

RECURSIVE UpperBetween(_, _, _)
\* the characters i..j of s in upper case, one half after the other
UpperBetween(s, i, j) ==
    IF i > j THEN ""
    ELSE IF i = j THEN UpperChar(CharAt(s, i))
    ELSE UpperBetween(s, i, (i + j) \div 2) \o UpperBetween(s, (i + j) \div 2 + 1, j)

\* str.upper()
Upper(s) == UpperBetween(s, 1, Len(s))

(***************************************************************************)
(* universal_extractor.py.  A sheet read with header=None is a grid; a     *)
(* dict keyed by month or product is a function from its keys.             *)
(***************************************************************************)
KNOWN_PRODUCTS ==
    <<"MCT360", "MCT165", "MCTSTICK10", "MCTSTICK30", "MCTSTICK16", "MCTITTO_C">>

\* lines 64-76 of to_float: the number of the text left inside the parentheses
FloatInText(is_negative, inner) ==
    IF inner = "" \/ inner = "-" THEN None
    ELSE Only({IF num = None THEN None
               ELSE IF is_negative THEN FloatNeg(num) ELSE num :
               num \in {FloatOfText(inner)}})

\* lines 60-76 of to_float.  (The other currency signs the code removes are
\* not in the modelled alphabet.)
ToFloatOfText(text) ==
    IF IsParenthesized(text)
    THEN FloatInText(TRUE, Strip(SubSeq(text, 2, Len(text) - 1)))
    ELSE FloatInText(FALSE, Strip(text))

\* to_float of a cell: a float, or None
ToFloat(c) ==
    IF IsBlank(c) THEN None
    ELSE IF IsNum(c) THEN Val(c)
    ELSE Only({ToFloatOfText(text) :
               text \in {Strip(RemoveChar(RemoveChar(c.s, "$"), ","))}})

\* MONTH_VARIANTS in the order of its keys, the digit keys of a month after
\* its words and the keys with the month sign last
MonthVariantKeys ==
    [k \in 1..12 |->
        (CASE k = 1 -> <<"jan", "january">> [] k = 2 -> <<"feb", "february">>
           [] k = 3 -> <<"mar", "march">> [] k = 4 -> <<"apr", "april">>
           [] k = 5 -> <<"may">> [] k = 6 -> <<"jun", "june">>
           [] k = 7 -> <<"jul", "july">> [] k = 8 -> <<"aug", "august">>
           [] k = 9 -> <<"sep", "sept", "september">>
           [] k = 10 -> <<"oct", "october">> [] k = 11 -> <<"nov", "november">>
           [] OTHER -> <<"dec", "december">>)
        \o (IF k < 10 THEN <<"0" \o IntStr(k), IntStr(k)>> ELSE <<IntStr(k)>>)]

\* lines 89-92 of normalize_month_name: the month of the first key of
\* MONTH_VARIANTS found in a text that holds the month sign, "" for none
MonthOfSignedText(text) ==
    LET plain == {k \in 1..12 : \E i \in 1..Len(MonthVariantKeys[k]) :
                                    Contains(text, MonthVariantKeys[k][i])}
        signed == {k \in 1..12 : Contains(text, IntStr(k) \o "#")}
    IN IF plain # {} THEN MONTH_NAMES[MinOf(plain)]
       ELSE IF signed # {} THEN MONTH_NAMES[MinOf(signed)]
       ELSE ""

\* lines 94-106: the month of the cleaned text
MonthOfPlainText(text) ==
    Only({MonthNameOfKey(text_lower) :
          text_lower \in {Strip(RemoveChar(Lower(text), "."))}})

\* normalize_month_name of universal_extractor.py applied to a cell whose
\* number pandas holds as a float when as_float: the month, "" for None
UniversalMonthName(c, as_float) ==
    IF IsBlank(c) THEN ""
    ELSE Only({IF Contains(text, "#") /\ MonthOfSignedText(text) # ""
               THEN MonthOfSignedText(text)
               ELSE MonthOfPlainText(text) :
               text \in {Strip(CellStr(c, as_float))}})

\* the frame of a grid read with header=None
HeaderlessFrame(grid) ==
    [cols |-> [j \in 1..GridWidth(grid) |-> IntStr(j - 1)], rows |-> grid]

\* lines 114-119: the month each cell of the first rows and columns names
HeaderMonthGrid(df) ==
    Only({[r \in 1..Min2(10, Len(df)) |->
              [c \in 1..Min2(30, GridWidth(df)) |->
                  UniversalMonthName(df[r][c], ColAsFloat(frame, c))]] :
          frame \in {HeaderlessFrame(df)}})

\* the first cell, row by row, that names the month: its column, counted from 0
FirstColumnOf(month_grid, month_name) ==
    LET rows == {r \in DOMAIN month_grid :
                    \E c \in DOMAIN month_grid[r] : month_grid[r][c] = month_name}
    IN MinOf({c \in DOMAIN month_grid[MinOf(rows)] :
                 month_grid[MinOf(rows)][c] = month_name}) - 1

\* lines 121-126: the standard positions D..O the sheet is wide enough for
StandardMonthColumns(df) ==
    [month_name \in {FISCAL_MONTHS[i + 1] : i \in {i \in 0..11 : 3 + i < GridWidth(df)}} |->
        3 + CHOOSE i \in 0..11 : FISCAL_MONTHS[i + 1] = month_name]

\* detect_month_columns(df): month name -> column index
UniversalMonthColumns(df) ==
    Only({Only({IF found # {}
                THEN [month_name \in found |-> FirstColumnOf(month_grid, month_name)]
                ELSE StandardMonthColumns(df) :
                found \in {{month_grid[r][c] :
                               r \in DOMAIN month_grid,
                               c \in 1..Min2(30, GridWidth(df))} \ {""}}}) :
          month_grid \in {HeaderMonthGrid(df)}})

\* lines 147-157: the code of a cell text, "" when no known product matches
MatchedProduct(cell_str) ==
    LET hits == {k \in 1..Len(KNOWN_PRODUCTS) :
                    \/ Contains(cell_str, KNOWN_PRODUCTS[k])
                    \/ Contains(KNOWN_PRODUCTS[k], cell_str)}
    IN IF hits = {} THEN "" ELSE KNOWN_PRODUCTS[MinOf(hits)]

\* lines 170-172: a text with a letter that is no plain number
ProductLike(cell_str) ==
    /\ \E i \in 1..Len(cell_str) :
          IndexIn(CharAt(cell_str, i), UpperAlpha \o LowerAlpha) > 0
    /\ Len(cell_str) >= 2
    /\ ~IsDigits(RemoveChar(RemoveChar(cell_str, "."), "-"))

\* lines 143-181 for the cell of row_idx and col_idx (counted from 0): the
\* code the cell registers, "" when it registers none
CellCode(df, frame, row_idx, col_idx) ==
    IF IsBlank(df[row_idx + 1][col_idx + 1]) THEN ""
    ELSE Only({IF Len(cell_str) < 2 THEN ""
               ELSE IF MatchedProduct(cell_str) # "" THEN MatchedProduct(cell_str)
               ELSE IF ProductLike(cell_str) THEN cell_str
               ELSE "" :
               cell_str \in {Upper(Strip(CellStr(df[row_idx + 1][col_idx + 1],
                                                 ColAsFloat(frame, col_idx + 1))))}})

\* detect_product_blocks(df, 0): each code with the row of the first cell, row
\* by row over the first three columns, that registers it
UniversalProductBlocks(df) ==
    Only({Only({[code \in (UNION {{codes[r][c] : c \in DOMAIN codes[r]} :
                                   r \in DOMAIN codes}) \ {""} |->
                    MinOf({r \in DOMAIN codes :
                              \E c \in DOMAIN codes[r] : codes[r][c] = code}) - 1] :
                codes \in {[r \in 1..Len(df) |->
                              [c \in 1..Min2(3, GridWidth(df)) |->
                                  CellCode(df, frame, r - 1, c - 1)]]}}) :
          frame \in {HeaderlessFrame(df)}})

\* lines 202-214: the floats of a column over the rows of the product
MonthFloats(df, product_row, col_idx, num_rows_to_check) ==
    IF col_idx >= GridWidth(df) THEN <<>>
    ELSE SelectSeq([k \in 1..(Min2(product_row + num_rows_to_check, Len(df))
                                  - product_row) |->
                       ToFloat(df[product_row + k][col_idx + 1])],
                   LAMBDA num_value : num_value # None)

\* extract_monthly_values_for_product with the months of no value left out,
\* as lines 274-277 of extract leave them out
UniversalHistorical(df, product_row, month_columns) ==
    Only({[month_name \in {m \in DOMAIN month_columns : floats[m] # <<>>} |->
              FloatSum(floats[month_name])] :
          floats \in {[m \in DOMAIN month_columns |->
                          MonthFloats(df, product_row, month_columns[m], 30)]}})

\* lines 349-361: the finite values of the months, in fiscal order
HistoricalValues(historical_data) ==
    SelectSeq([i \in 1..12 |->
                  IF FISCAL_MONTHS[i] \in DOMAIN historical_data
                  THEN historical_data[FISCAL_MONTHS[i]] ELSE NaN],
              IsFinite)

\* float(np.mean(values)) of a non-empty list
FloatMean(values) ==
    Only({IF IsFinite(total) THEN ValDivInt(total, Len(values)) ELSE total :
          total \in {FloatSum(values)}})

\* lines 367-372
MovingAverage(historical_values) ==
    IF Len(historical_values) >= 3
    THEN FloatMean(SubSeq(historical_values, Len(historical_values) - 2,
                          Len(historical_values)))
    ELSE IF Len(historical_values) >= 2 THEN FloatMean(historical_values)
    ELSE historical_values[Len(historical_values)]

\* the months of a horizon of num_months after the month of fiscal place last
HorizonMonths(last, num_months) ==
    {FISCAL_MONTHS[((last - 1 + i) % 12) + 1] : i \in 1..num_months}

\* _calculate_predictions(historical_data, num_months): month -> forecast; an
\* empty dict is the empty function <<>>
CalculatePredictions(historical_data, num_months) ==
    Only({IF historical_values = <<>> THEN <<>>
          ELSE Only({[month_name \in HorizonMonths(last, num_months) |-> forecast_value] :
                     last \in {MaxOf({i \in 1..12 :
                                         FISCAL_MONTHS[i] \in DOMAIN historical_data})},
                     forecast_value \in {MovingAverage(historical_values)}}) :
          historical_values \in {HistoricalValues(historical_data)}})

\* dict.update
Update(old, new) ==
    [k \in DOMAIN old \cup DOMAIN new |-> IF k \in DOMAIN new THEN new[k] ELSE old[k]]

\* lines 284-292: the product's entry after the data of one more sheet
MergedProduct(all_products_data, product_code, historical_data, predicted_data) ==
    IF product_code \in DOMAIN all_products_data
    THEN [historical |-> Update(all_products_data[product_code].historical,
                                historical_data),
          predicted |-> Update(all_products_data[product_code].predicted,
                               predicted_data)]
    ELSE [historical |-> historical_data, predicted |-> predicted_data]

\* lines 295-298: the totals after the data of one more product
AddedTotals(overall_monthly_totals, historical_data) ==
    [m \in DOMAIN overall_monthly_totals \cup DOMAIN historical_data |->
        IF m \notin DOMAIN historical_data THEN overall_monthly_totals[m]
        ELSE FloatAdd(IF m \in DOMAIN overall_monthly_totals
                      THEN overall_monthly_totals[m] ELSE ValZero,
                      historical_data[m])]

RECURSIVE ExtractProducts(_, _, _, _, _)
\* lines 264-298: the products of one sheet, one after another, added to the
\* data gathered so far (a sheet registers a code once)
ExtractProducts(gathered, df, month_columns, blocks, codes) ==
    IF codes = {} THEN gathered
    ELSE Only({Only({Only({ExtractProducts(added, df, month_columns, blocks,
                                           codes \ {product_code}) :
                           added \in {
                        IF DOMAIN historical_data = {} THEN gathered
                        ELSE [all_products_data |->
                                 [code \in DOMAIN gathered.all_products_data
                                              \cup {product_code} |->
                                     IF code = product_code
                                     THEN MergedProduct(gathered.all_products_data,
                                              product_code, historical_data,
                                              CalculatePredictions(historical_data, 6))
                                     ELSE gathered.all_products_data[code]],
                              overall_monthly_totals |->
                                 AddedTotals(gathered.overall_monthly_totals,
                                             historical_data)]}}) :
                     historical_data \in {UniversalHistorical(df, blocks[product_code],
                                                              month_columns)}}) :
               product_code \in {CHOOSE code \in codes : TRUE}})

\* lines 251-298: one sheet added to the data gathered so far
ExtractSheet(gathered, df) ==
    IF Len(df) = 0 THEN gathered
    ELSE Only({IF DOMAIN month_columns = {} THEN gathered
               ELSE Only({ExtractProducts(gathered, df, month_columns, blocks,
                                          DOMAIN blocks) :
                          blocks \in {UniversalProductBlocks(df)}}) :
               month_columns \in {UniversalMonthColumns(df)}})

RECURSIVE ExtractSheets(_, _)
\* lines 248-302: every sheet of the workbook, in order
ExtractSheets(gathered, sheets) ==
    IF sheets = <<>> THEN gathered
    ELSE ExtractSheets(ExtractSheet(gathered, Head(sheets)), Tail(sheets))

\* UniversalDataExtractor(file_path).extract() for a workbook that opens:
\* sheets are its sheets read with header=None
UniversalExtract(sheets) ==
    Only({[products |-> gathered.all_products_data,
           overall |->
               IF DOMAIN gathered.overall_monthly_totals # {}
               THEN [historical |-> gathered.overall_monthly_totals,
                     predicted |-> CalculatePredictions(
                                       gathered.overall_monthly_totals, 6)]
               ELSE [historical |-> <<>>, predicted |-> <<>>]] :
          gathered \in {ExtractSheets([all_products_data |-> <<>>,
                                       overall_monthly_totals |-> <<>>], sheets)}})

(***************************************************************************)
(* SpecUniversal: the universal extractor applied to workbooks of one or   *)
(* two sheets, each a header row of two months over one product row        *)
(***************************************************************************)
\* the fiscal places of the first month columns
UniStarts == {1, 3, 11}

UniCodes == {"MCT360", "MCT165"}

\* what a month cell of the first sheet holds
UniCells == {I(100), T("$1,200"), T("inf"), B}

UniSheet(start, code, cells) ==
    <<<<T("Product"), B, B, T(FISCAL_MONTHS[start]), T(FISCAL_MONTHS[start + 1])>>,
      <<T(code), B, B, cells[1], cells[2]>>>>

UniFirstSheets ==
    {UniSheet(start, code, cells) :
        start \in UniStarts, code \in UniCodes, cells \in UniCells \X UniCells}

UniLaterSheets ==
    {UniSheet(start, code, <<I(40), I(60)>>) : start \in UniStarts, code \in UniCodes}

UniBooks == {<<first>> : first \in UniFirstSheets} \cup (UniFirstSheets \X UniLaterSheets)

InitUniversal ==
    /\ fnCall \in {[fn |-> "UniversalDataExtractor.extract", sheets |-> sheets] :
                      sheets \in UniBooks}
    /\ fnOut = None
    /\ nzFrame = None /\ nzOut = None
    /\ fcIn = <<>> /\ fcTie = <<>> /\ fcOut = None
    /\ rgSheet = None /\ rgOut = None
    /\ WebIdle

Extract ==
    /\ fnCall.fn = "UniversalDataExtractor.extract" /\ fnOut = None
    /\ fnOut' = UniversalExtract(fnCall.sheets)
    /\ UNCHANGED <<nzFrame, nzOut, fcIn, fcTie, fcOut, rgSheet, rgOut, fnCall, webVars>>

NextUniversal == Extract

SpecUniversal == InitUniversal /\ [][NextUniversal]_vars

Extracted ==
    /\ fnCall # None /\ fnOut # None
    /\ fnCall.fn = "UniversalDataExtractor.extract"

\* the series of a result: one for each product and the overall one
SeriesOf(result) ==
    {result.products[code] : code \in DOMAIN result.products} \cup {result.overall}

\* C12: every value of products[*].historical, products[*].predicted,
\* overall.historical and overall.predicted that extract() returns is a
\* finite float, never NaN and never plus or minus infinity, whatever the
\* cells of the workbook hold.
C12_EveryValueFinite ==
    Extracted =>
        \A series \in SeriesOf(fnOut) :
            /\ \A m \in DOMAIN series.historical : IsFinite(series.historical[m])
            /\ \A m \in DOMAIN series.predicted : IsFinite(series.predicted[m])

\* the fiscal place of the last month present in a historical map
LastPlace(historical) == MaxOf({i \in 1..12 : FISCAL_MONTHS[i] \in DOMAIN historical})

\* the predicted map holds the six months after the last historical month,
\* all with one value, and holds nothing when there is no historical data
SixAfterLast(series) ==
    IF DOMAIN series.historical = {} THEN DOMAIN series.predicted = {}
    ELSE /\ DOMAIN series.predicted =
                {FISCAL_MONTHS[((LastPlace(series.historical) + k - 1) % 12) + 1] :
                    k \in 1..6}
         /\ \A m1, m2 \in DOMAIN series.predicted :
                series.predicted[m1] = series.predicted[m2]

\* C13: in the result of extract(), the predicted map of each product and of
\* the overall series holds exactly the 6 fiscal months that follow, wrapping
\* modulo 12, the last fiscal month of that series' historical map, all with
\* the same value, also for a product merged from several sheets; a series
\* with no historical data has an empty predicted map.
C13_PredictedSixAfterLast ==
    Extracted => \A series \in SeriesOf(fnOut) : SixAfterLast(series)

(***************************************************************************)
(* comprehensive_extractor.py.  A Python list handed on to other code is   *)
(* the record [list |-> its items], which tells it from a dict.            *)
(***************************************************************************)
PyList(items) == [list |-> items]

\* isinstance(value, list) for a value that is a list or a dict
IsList(value) == DOMAIN value = {"list"}

\* detect_header_row: the first of the first 20 rows that names at least
\* three months in its first 30 columns, counted from 0; -1 for None
ComprehensiveHeaderRow(df) ==
    Only({Only({IF rows = {} THEN -1 ELSE MinOf(rows) - 1 :
                rows \in {{r \in 1..Min2(20, Len(df)) :
                             Cardinality({c \in 1..Min2(30, GridWidth(df)) :
                                UniversalMonthName(df[r][c], ColAsFloat(frame, c)) # ""})
                                 >= 3}}}) :
          frame \in {HeaderlessFrame(df)}})

\* lines 114-119 of detect_month_columns: each month the header row names,
\* with the last column that names it
HeaderRowColumns(df, header_row) ==
    Only({Only({[month_name \in {month_of[c] : c \in DOMAIN month_of} \ {""} |->
                    MaxOf({c \in DOMAIN month_of : month_of[c] = month_name}) - 1] :
                month_of \in {[c \in 1..GridWidth(df) |->
                                 UniversalMonthName(df[header_row + 1][c],
                                                    ColAsFloat(frame, c))]}}) :
          frame \in {HeaderlessFrame(df)}})

\* detect_month_columns(df, header_row) of comprehensive_extractor.py
ComprehensiveMonthColumns(df, header_row) ==
    Only({IF DOMAIN month_columns # {} THEN month_columns
          ELSE StandardMonthColumns(df) :
          month_columns \in {IF header_row # -1 /\ header_row < Len(df)
                             THEN HeaderRowColumns(df, header_row) ELSE <<>>}})

\* lines 144-157 of detect_all_products: the code a cell registers, "" for none
ComprehensiveCellCode(df, frame, row_idx, col_idx) ==
    IF IsBlank(df[row_idx + 1][col_idx + 1]) THEN ""
    ELSE Only({IF Len(cell_str) < 2 THEN ""
               ELSE IF ProductLike(cell_str) THEN Upper(cell_str)
               ELSE "" :
               cell_str \in {Strip(CellStr(df[row_idx + 1][col_idx + 1],
                                           ColAsFloat(frame, col_idx + 1)))}})

\* detect_all_products(df, start_row): the codes in the order of the first
\* cell that registers each, row by row over the first three columns, each
\* with the row of that cell
ComprehensiveProducts(df, start_row) ==
    Only({Only({Only({[k \in 1..Len(firsts) |->
                          [code |-> codes[firsts[k]],
                           row_index |-> ((firsts[k] - 1) \div 3) + start_row]] :
                      firsts \in {Ascending({p \in DOMAIN codes :
                                     /\ codes[p] # ""
                                     /\ \A q \in 1..(p - 1) : codes[q] # codes[p]})}}) :
                codes \in {[p \in 1..(3 * (Len(df) - start_row)) |->
                              IF ((p - 1) % 3) + 1 > GridWidth(df) THEN ""
                              ELSE ComprehensiveCellCode(df, frame,
                                       ((p - 1) \div 3) + start_row, (p - 1) % 3)]}}) :
          frame \in {HeaderlessFrame(df)}})

\* extract_product_monthly_data with the months of no value left out;
\* normalize_numeric_value of this module reads a cell as to_float does
ComprehensiveMonthlyData(df, product_row, month_columns, num_rows_to_check) ==
    Only({[month_name \in {m \in DOMAIN month_columns : floats[m] # <<>>} |->
              FloatSum(floats[month_name])] :
          floats \in {[m \in DOMAIN month_columns |->
                          MonthFloats(df, product_row, month_columns[m],
                                      num_rows_to_check)]}})

\* calculate_forecast_from_historical: the forecast, num_months times
CalculateForecastFromHistorical(historical_values, num_months) ==
    Only({IF valid_values = <<>> THEN <<>>
          ELSE Only({[k \in 1..num_months |-> forecast_value] :
                     forecast_value \in {MovingAverage(valid_values)}}) :
          valid_values \in {SelectSeq(historical_values, LAMBDA v : v # NaN)}})

\* lines 277-296: the months of FISCAL_MONTHS that have a value, in order
FiscalItems(monthly_data) ==
    Only({[k \in 1..Len(order) |->
              [month |-> FISCAL_MONTHS[order[k]],
               value |-> monthly_data[FISCAL_MONTHS[order[k]]]]] :
          order \in {Ascending({i \in 1..12 : FISCAL_MONTHS[i] \in DOMAIN monthly_data})}})

\* lines 293-296, 346-349: the forecast values under the labels <month>_next,
\* from April on
NextLabelled(predicted_values) ==
    [k \in 1..Len(predicted_values) |->
        [month |-> FISCAL_MONTHS[k] \o "_next", value |-> predicted_values[k]]]

\* lines 264-320 for one product of a sheet: its entry of the products list,
\* None when the product has no value
ComprehensiveProduct(df, product, month_columns) ==
    Only({IF DOMAIN monthly_data = {} THEN None
          ELSE Only({[product_code |-> product.code,
                      historical |-> PyList(items),
                      predicted |-> PyList(NextLabelled(
                          CalculateForecastFromHistorical(
                              [k \in 1..Len(items) |-> items[k].value], 12))),
                      monthly_data |-> monthly_data] :
                     items \in {FiscalItems(monthly_data)}}) :
          monthly_data \in {ComprehensiveMonthlyData(df, product.row_index,
                                                     month_columns, 30)}})

\* lines 243-325: the entries of one sheet, in the order of its products
ComprehensiveSheet(df) ==
    IF Len(df) = 0 THEN <<>>
    ELSE Only({Only({SelectSeq([k \in 1..Len(products) |->
                                   ComprehensiveProduct(df, products[k], month_columns)],
                               LAMBDA entry : entry # None) :
                     products \in {ComprehensiveProducts(
                                      df, IF header_row # -1 THEN header_row + 1 ELSE 0)},
                     month_columns \in {ComprehensiveMonthColumns(df, header_row)}}) :
               header_row \in {ComprehensiveHeaderRow(df)}})

RECURSIVE ComprehensiveEntries(_)
\* the entries of every sheet, in order
ComprehensiveEntries(sheets) ==
    IF sheets = <<>> THEN <<>>
    ELSE ComprehensiveSheet(Head(sheets)) \o ComprehensiveEntries(Tail(sheets))

RECURSIVE TotalsOf(_)
\* lines 315-320: the totals of each month over the entries
TotalsOf(entries) ==
    IF entries = <<>> THEN <<>>
    ELSE AddedTotals(TotalsOf(SubSeq(entries, 1, Len(entries) - 1)),
                     entries[Len(entries)].monthly_data)

\* lines 332-356: the overall series
ComprehensiveOverall(overall_monthly_totals) ==
    IF DOMAIN overall_monthly_totals = {}
    THEN [months |-> PyList(<<>>), historical |-> PyList(<<>>), predicted |-> PyList(<<>>)]
    ELSE Only({[months |-> PyList([k \in 1..Len(items) |-> items[k].month]),
                historical |-> PyList([k \in 1..Len(items) |-> items[k].value]),
                predicted |-> PyList(NextLabelled(CalculateForecastFromHistorical(
                                  [k \in 1..Len(items) |-> items[k].value], 12)))] :
               items \in {FiscalItems(overall_monthly_totals)}})

\* extract_all_sheets_data(file_path) for a workbook that opens: sheets are
\* its sheets read with header=None.  (The per-sheet copy raw_sheets and the
\* sums of the summary are left out.)
ExtractAllSheetsData(sheets) ==
    Only({[error |-> FALSE,
           products |-> PyList([k \in 1..Len(entries) |->
                                  [product_code |-> entries[k].product_code,
                                   historical |-> entries[k].historical,
                                   predicted |-> entries[k].predicted]]),
           overall |-> ComprehensiveOverall(TotalsOf(entries)),
           summary |-> [total_sheets |-> Len(sheets), total_products |-> Len(entries)]] :
          entries \in {ComprehensiveEntries(sheets)}})

(***************************************************************************)
(* chart_data_builder.py: ChartDataBuilder.build_chart_data                *)
(***************************************************************************)
\* dict.get(key, {}) of a dict given as a record, <<>> being the empty dict
GetDict(data, key) == IF key \in DOMAIN data THEN data[key] ELSE <<>>

\* month_name in container, for a dict keyed by month or a list of other things
HasMonth(container, month_name) ==
    IF IsList(container) THEN FALSE ELSE month_name \in DOMAIN container

\* lines 79-84: the fiscal places of the months with a historical value
HistoricalPlaces(historical_dict) ==
    {i \in 1..12 : /\ HasMonth(historical_dict, FISCAL_MONTHS[i])
                   /\ historical_dict[FISCAL_MONTHS[i]] # None}

\* the predicted places that count the months already historical as well
PredictedPlacesWithHistorical(predicted_dict, months) ==
    {i \in 1..12 : /\ HasMonth(predicted_dict, FISCAL_MONTHS[i])
                   /\ predicted_dict[FISCAL_MONTHS[i]] # None}

\* lines 89-94: the fiscal places of the months with a predicted value that
\* are not in the list months
PredictedPlaces(predicted_dict, months) ==
    {i \in 1..12 : /\ HasMonth(predicted_dict, FISCAL_MONTHS[i])
                   /\ FISCAL_MONTHS[i] \notin months
                   /\ predicted_dict[FISCAL_MONTHS[i]] # None}

\* the arrays of a series whose months with a value have the fiscal places
\* hist and pred, in order
ArraysOf(historical_dict, predicted_dict, hist, pred) ==
    [months |-> [k \in 1..Len(hist) |-> FISCAL_MONTHS[hist[k]]],
     historical |-> [k \in 1..Len(hist) |-> historical_dict[FISCAL_MONTHS[hist[k]]]],
     predicted |-> [k \in 1..Len(pred) |-> predicted_dict[FISCAL_MONTHS[pred[k]]]],
     predicted_months |-> [k \in 1..Len(pred) |-> FISCAL_MONTHS[pred[k]]]]

\* lines 70-94, 105-129: the arrays of one series
SeriesArrays(series_data) ==
    Only({Only({ArraysOf(historical_dict, predicted_dict, Ascending(places),
                         Ascending(PredictedPlaces(
                             predicted_dict, {FISCAL_MONTHS[i] : i \in places}))) :
                places \in {HistoricalPlaces(historical_dict)}}) :
          historical_dict \in {GetDict(series_data, "historical")},
          predicted_dict \in {GetDict(series_data, "predicted")}})

\* what a call returns, or the exception it raises
Returns(value) == [status |-> "ok", value |-> value]
Raises(kind) == [status |-> kind, value |-> None]

\* lines 132-136: the overall series has no predicted_months
OverallArrays(arrays) ==
    [months |-> arrays.months, historical |-> arrays.historical,
     predicted |-> arrays.predicted]

\* build_chart_data(extracted_data); products_data.items() of line 69 is an
\* AttributeError when the products are a list
BuildChartData(extracted_data) ==
    Only({IF IsList(products_data) THEN Raises("AttributeError")
          ELSE Only({Returns(
                   [products |-> [code \in {c \in DOMAIN arrays :
                                              \/ arrays[c].months # <<>>
                                              \/ arrays[c].predicted_months # <<>>} |->
                                     arrays[code]],
                    overall |-> OverallArrays(
                                    SeriesArrays(GetDict(extracted_data, "overall")))]) :
                     arrays \in {[c \in DOMAIN products_data |->
                                     SeriesArrays(products_data[c])]}}) :
          products_data \in {GetDict(extracted_data, "products")}})

(***************************************************************************)
(* SpecChart: build_chart_data applied to extracted data, and to what the  *)
(* two extractors return for a sheet of one product                        *)
(***************************************************************************)
\* the dicts over some of the months, each value a float or None
ChartDicts(months) ==
    UNION {[present -> {None, [n |-> 100, d |-> 1]}] : present \in SUBSET months}

ChartSeries ==
    {[historical |-> historical, predicted |-> predicted] :
        historical \in ChartDicts({"April", "May", "March"}),
        predicted \in ChartDicts({"April", "May", "June"})}

\* a second product: none, one without data, one with a predicted month only
ChartOthers ==
    {<<>>,
     [MCT165 |-> [historical |-> <<>>, predicted |-> <<>>]],
     [MCT165 |-> [predicted |-> [January |-> [n |-> 70, d |-> 1]]]]}

ChartInputs ==
    {[products |-> Update([MCT360 |-> series], others), overall |-> series] :
        series \in ChartSeries, others \in ChartOthers}

\* a sheet of one product under a header of three months
OneProductSheets ==
    {<<<<B, B, B, T("April"), T("May"), T("June")>>,
       <<T(code), B, B, cells[1], cells[2], cells[3]>>>> :
        code \in UniCodes, cells \in {I(100), B} \X {I(120), B} \X {B}}

InitChart ==
    /\ \/ fnCall \in {[fn |-> "build_chart_data", extracted_data |-> extracted_data] :
                         extracted_data \in ChartInputs}
       \/ fnCall \in {[fn |-> "build_chart_data", extractor |-> extractor,
                       sheets |-> <<sheet>>] :
                         extractor \in {"universal", "comprehensive"},
                         sheet \in OneProductSheets}
    /\ fnOut = None
    /\ nzFrame = None /\ nzOut = None
    /\ fcIn = <<>> /\ fcTie = <<>> /\ fcOut = None
    /\ rgSheet = None /\ rgOut = None
    /\ WebIdle

\* build_chart_data on extracted data
BuildChart ==
    /\ "extracted_data" \in DOMAIN fnCall /\ fnOut = None
    /\ fnOut' = BuildChartData(fnCall.extracted_data)
    /\ UNCHANGED <<nzFrame, nzOut, fcIn, fcTie, fcOut, rgSheet, rgOut, fnCall, webVars>>

\* build_chart_data on what UniversalDataExtractor.extract() returns
ChartOfUniversal ==
    /\ "extractor" \in DOMAIN fnCall /\ fnCall.extractor = "universal" /\ fnOut = None
    /\ fnOut' = BuildChartData(UniversalExtract(fnCall.sheets))
    /\ UNCHANGED <<nzFrame, nzOut, fcIn, fcTie, fcOut, rgSheet, rgOut, fnCall, webVars>>

\* build_chart_data on what extract_all_sheets_data returns
ChartOfComprehensive ==
    /\ "extractor" \in DOMAIN fnCall /\ fnCall.extractor = "comprehensive" /\ fnOut = None
    /\ fnOut' = BuildChartData(ExtractAllSheetsData(fnCall.sheets))
    /\ UNCHANGED <<nzFrame, nzOut, fcIn, fcTie, fcOut, rgSheet, rgOut, fnCall, webVars>>

NextChart ==
    \/ BuildChart
    \/ ChartOfUniversal
    \/ ChartOfComprehensive

SpecChart == InitChart /\ [][NextChart]_vars

\* a sheet whose one product has the historical months {April: 100}
AprilOnly(sheets) ==
    /\ Len(sheets) = 1
    /\ sheets[1][2][4] = I(100) /\ sheets[1][2][5] = B /\ sheets[1][2][6] = B

\* the n months after April in fiscal order, wrapping
AfterApril(n) == [k \in 1..n |-> FISCAL_MONTHS[(k % 12) + 1]]

Hundred == [n |-> 100, d |-> 1]

\* C14: the output of an extractor for a single product with the historical
\* months {April: 100}, fed into build_chart_data, gives months = ['April'],
\* historical = [100.0] and a predicted series of the 6 (universal
\* extractor) or 12 (comprehensive extractor) months that follow April in
\* fiscal order, each of the value 100.0.
C14_RoundTripOfAprilOnly ==
    (/\ fnCall # None /\ fnOut # None
     /\ fnCall.fn = "build_chart_data" /\ "extractor" \in DOMAIN fnCall
     /\ AprilOnly(fnCall.sheets))
        => /\ fnOut.status = "ok"
           /\ \A code \in {fnCall.sheets[1][2][1].s} :
                 /\ code \in DOMAIN fnOut.value.products
                 /\ fnOut.value.products[code].months = <<"April">>
                 /\ fnOut.value.products[code].historical = <<Hundred>>
                 /\ fnOut.value.products[code].predicted_months =
                        AfterApril(IF fnCall.extractor = "universal" THEN 6 ELSE 12)
                 /\ \A k \in DOMAIN fnOut.value.products[code].predicted :
                        fnOut.value.products[code].predicted[k] = Hundred

\* the fiscal place of a month name
FiscalPlace(month_name) == CHOOSE i \in 1..12 : FISCAL_MONTHS[i] = month_name

\* the months of a list are in fiscal order, none twice
InFiscalOrder(months) ==
    \A j, k \in 1..Len(months) : j < k => FiscalPlace(months[j]) < FiscalPlace(months[k])

\* the dict of a series under a key, empty when the key is missing
DictOf(series, key) == IF key \in DOMAIN series THEN series[key] ELSE <<>>

\* the month has a value in the dict
Valued(dict, month_name) == month_name \in DOMAIN dict /\ dict[month_name] # None

\* the arrays are the ones of the series: its valued historical months, and
\* its valued predicted months that are no historical ones
ArraysFollow(arrays, historical, predicted) ==
    /\ Len(arrays.months) = Len(arrays.historical)
    /\ Len(arrays.predicted_months) = Len(arrays.predicted)
    /\ InFiscalOrder(arrays.months) /\ InFiscalOrder(arrays.predicted_months)
    /\ \A i \in 1..12 :
          /\ (\E k \in 1..Len(arrays.months) : arrays.months[k] = FISCAL_MONTHS[i])
                <=> Valued(historical, FISCAL_MONTHS[i])
          /\ (\E k \in 1..Len(arrays.predicted_months) :
                  arrays.predicted_months[k] = FISCAL_MONTHS[i])
                <=> (/\ Valued(predicted, FISCAL_MONTHS[i])
                     /\ ~Valued(historical, FISCAL_MONTHS[i]))
    /\ \A k \in 1..Len(arrays.months) : arrays.historical[k] = historical[arrays.months[k]]
    /\ \A k \in 1..Len(arrays.predicted_months) :
          arrays.predicted[k] = predicted[arrays.predicted_months[k]]

ChartBuilt ==
    /\ fnCall # None /\ fnOut # None
    /\ fnCall.fn = "build_chart_data" /\ "extracted_data" \in DOMAIN fnCall

\* C15: for every input of build_chart_data each product series lists its
\* months in fiscal order; a month is in months/historical iff its
\* historical value is present and not absent, in predicted_months/predicted
\* iff its predicted value is present, not absent, and the month is not in
\* the historical list; months and historical are of equal length, as are
\* predicted_months and predicted; a product with no month in either list is
\* left out.
C15_SeriesFollowTheDicts ==
    ChartBuilt =>
        /\ fnOut.status = "ok"
        /\ DOMAIN fnOut.value.products \subseteq DOMAIN fnCall.extracted_data.products
        /\ \A code \in DOMAIN fnCall.extracted_data.products :
              \E series \in {fnCall.extracted_data.products[code]} :
                  IF \E i \in 1..12 :
                        \/ Valued(DictOf(series, "historical"), FISCAL_MONTHS[i])
                        \/ Valued(DictOf(series, "predicted"), FISCAL_MONTHS[i])
                  THEN /\ code \in DOMAIN fnOut.value.products
                       /\ ArraysFollow(fnOut.value.products[code],
                                       DictOf(series, "historical"),
                                       DictOf(series, "predicted"))
                  ELSE code \notin DOMAIN fnOut.value.products

\* a product with a month valued in both dicts and a month whose historical
\* value is absent and whose predicted value is not, beside a product left out
C15_MixedSeriesWitness ==
    /\ ChartBuilt
    /\ \E series \in {fnCall.extracted_data.products["MCT360"]} :
          /\ Valued(series.historical, "May") /\ Valued(series.predicted, "May")
          /\ "April" \in DOMAIN series.historical /\ series.historical["April"] = None
          /\ Valued(series.predicted, "April")
          /\ Valued(series.historical, "March")
    /\ "MCT165" \in DOMAIN fnCall.extracted_data.products
    /\ "MCT165" \notin DOMAIN fnOut.value.products
    /\ fnOut.value.products["MCT360"].predicted_months = <<"April">>

(***************************************************************************)
(* prediction_utils.py: generate_forecast_data.  The dict monthly_totals   *)
(* is the sequence of its items [month, value], in the order of its keys.  *)
(***************************************************************************)
\* the months after the month of fiscal place last_month, wrapping
FutureMonths(last_month, num_future_months) ==
    [i \in 1..num_future_months |-> FISCAL_MONTHS[((last_month - 1 + i) % 12) + 1]]

\* lines 133-134: the items with a value > 0, in the order of the keys
HistoricalItems(monthly_totals) ==
    SelectSeq(monthly_totals, LAMBDA item : item.value.n > 0)

\* generate_forecast_data(monthly_totals, num_future_months)
GenerateForecastData(monthly_totals, num_future_months) ==
    Only({IF items = <<>>
          THEN [months |-> <<>>, historical |-> <<>>, predicted |-> <<>>,
                all_months |-> <<>>, all_values |-> <<>>]
          ELSE Only({[months |-> historical_months,
                      historical |-> historical_values,
                      predicted |-> predictions,
                      future_months |-> future_months,
                      all_months |-> historical_months \o future_months,
                      all_values |-> historical_values \o predictions,
                      prediction_point |-> Len(historical_months) - 1] :
                     historical_months \in {[k \in 1..Len(items) |-> items[k].month]},
                     historical_values \in {[k \in 1..Len(items) |-> items[k].value]},
                     predictions \in {PredictNextMonths(
                                         [k \in 1..Len(items) |-> items[k].value],
                                         num_future_months, "moving_average")},
                     future_months \in {FutureMonths(
                                           CHOOSE i \in 1..12 :
                                               FISCAL_MONTHS[i] = items[Len(items)].month,
                                           num_future_months)}}) :
          items \in {HistoricalItems(monthly_totals)}})

(***************************************************************************)
(* SpecPrediction: predict_next_months and generate_forecast_data applied  *)
(* to short series                                                         *)
(***************************************************************************)
MaxValues == 3

\* what a month of a series holds
PredictionValues == {ValInt(-20), ValInt(0), ValInt(40), ValInt(100)}

PredictionSeries == UNION {[1..n -> PredictionValues] : n \in 0..MaxValues}

\* the months of a totals dict, in the orders its keys can be in
TotalsMonths == {"April", "May", "March"}

TotalsOrders ==
    UNION {{order \in [1..n -> TotalsMonths] :
               \A j, k \in 1..n : j # k => order[j] # order[k]} : n \in 0..3}

MonthlyTotals ==
    UNION {{[k \in 1..Len(order) |-> [month |-> order[k], value |-> values[k]]] :
               values \in [1..Len(order) -> {ValInt(0), ValInt(100), ValInt(120)}]} :
           order \in TotalsOrders}

InitPrediction ==
    /\ \/ fnCall \in {[fn |-> "predict_next_months", values |-> values,
                       num_months |-> num_months, method |-> method] :
                         values \in PredictionSeries, num_months \in {0, 3},
                         method \in {"moving_average", "linear_trend"}}
       \/ fnCall \in {[fn |-> "generate_forecast_data",
                       monthly_totals |-> monthly_totals,
                       num_future_months |-> num_future_months] :
                         monthly_totals \in MonthlyTotals, num_future_months \in {2, 6}}
    /\ fnOut = None
    /\ nzFrame = None /\ nzOut = None
    /\ fcIn = <<>> /\ fcTie = <<>> /\ fcOut = None
    /\ rgSheet = None /\ rgOut = None
    /\ WebIdle

PredictNext ==
    /\ fnCall.fn = "predict_next_months" /\ fnOut = None
    /\ fnOut' = Returns(PredictNextMonths(fnCall.values, fnCall.num_months,
                                          fnCall.method))
    /\ UNCHANGED <<nzFrame, nzOut, fcIn, fcTie, fcOut, rgSheet, rgOut, fnCall, webVars>>

GenerateForecast ==
    /\ fnCall.fn = "generate_forecast_data" /\ fnOut = None
    /\ fnOut' = Returns(GenerateForecastData(fnCall.monthly_totals,
                                             fnCall.num_future_months))
    /\ UNCHANGED <<nzFrame, nzOut, fcIn, fcTie, fcOut, rgSheet, rgOut, fnCall, webVars>>

NextPrediction ==
    \/ PredictNext
    \/ GenerateForecast

SpecPrediction == InitPrediction /\ [][NextPrediction]_vars

Predicted ==
    /\ fnCall # None /\ fnOut # None
    /\ fnCall.fn = "predict_next_months"

\* C16: for any list of historical values, any num_months and either
\* method, predict_next_months returns exactly num_months entries, each
\* >= 0; with no input values, or with no positive value, it returns
\* num_months zeros.
C16_NumMonthsNonNegative ==
    Predicted =>
        /\ fnOut.status = "ok"
        /\ Len(fnOut.value) = fnCall.num_months
        /\ \A k \in 1..Len(fnOut.value) : fnOut.value[k].n >= 0 /\ fnOut.value[k].d > 0
        /\ (\A j \in 1..Len(fnCall.values) : fnCall.values[j].n <= 0)
              => \A k \in 1..Len(fnOut.value) : fnOut.value[k].n = 0

\* a falling series whose trend line goes below zero: the floor acts
C16_FlooredTrendWitness ==
    /\ Predicted
    /\ fnCall.method = "linear_trend"
    /\ fnCall.values = <<ValInt(100), ValInt(0), ValInt(40)>>
    /\ fnCall.num_months = 3
    /\ \A k \in 1..3 : fnOut.value[k].n = 0

Forecast ==
    /\ fnCall # None /\ fnOut # None
    /\ fnCall.fn = "generate_forecast_data"

\* the fiscal places of the months of the totals whose value is > 0
PositivePlaces(monthly_totals) ==
    {i \in 1..12 : \E j \in 1..Len(monthly_totals) :
                       /\ monthly_totals[j].month = FISCAL_MONTHS[i]
                       /\ monthly_totals[j].value.n > 0}

\* the total of the month of fiscal place i
TotalAt(monthly_totals, i) ==
    monthly_totals[CHOOSE j \in 1..Len(monthly_totals) :
                       monthly_totals[j].month = FISCAL_MONTHS[i]].value

\* C17: for any month-to-total mapping generate_forecast_data returns as
\* 'months' exactly the months whose total is > 0, in fiscal order whatever
\* the order of the keys, as 'predicted' num_future_months entries all equal
\* to the mean of the last min(3, n) historical values, and as
\* 'future_months' the num_future_months fiscal months after the last
\* historical month, wrapping modulo 12; April=100, May=120 gives the months
\* ['April', 'May'] and 110.0 six times.
C17_ForecastInFiscalOrder ==
    Forecast =>
        \E places \in {Ascending(PositivePlaces(fnCall.monthly_totals))} :
            /\ fnOut.value.months = [k \in 1..Len(places) |-> FISCAL_MONTHS[places[k]]]
            /\ Len(places) > 0 =>
                  /\ Len(fnOut.value.predicted) = fnCall.num_future_months
                  /\ \A k \in 1..Len(fnOut.value.predicted) :
                        ValEq(fnOut.value.predicted[k],
                              MeanOfLast([p \in 1..Len(places) |->
                                             TotalAt(fnCall.monthly_totals, places[p])],
                                         Min2(3, Len(places))))
                  /\ fnOut.value.future_months =
                        [i \in 1..fnCall.num_future_months |->
                            FISCAL_MONTHS[((places[Len(places)] - 1 + i) % 12) + 1]]

(***************************************************************************)
(* SpecExtractor: extract_monthly_series, normalize_month_name and         *)
(* normalize_numeric_value of excel_extractor.py applied to small inputs   *)
(***************************************************************************)
\* the widths of the sheets whose columns are labelled A, B, C, ...
LetterWidths == {15, 16}

\* what the product row holds under a month column
SeriesCells == {I(720), F(7605, 1), I(0)}

\* the rows of a sheet of the given width: a row without values, the row of
\* MCT360 with d, e, f in its 4th to 6th column, and the row of another product
LetterRows(width, d, e, f) ==
    << [j \in 1..width |-> IF j = 1 THEN T("Product") ELSE B],
       [j \in 1..width |->
           IF j = 1 THEN T("MCT360") ELSE IF j = 4 THEN d
           ELSE IF j = 5 THEN e ELSE IF j = 6 THEN f ELSE B],
       [j \in 1..width |->
           IF j = 1 THEN T("Other") ELSE IF j \in 4..6 THEN I(100) ELSE B] >>

\* a sheet with the columns A .. O or A .. P
LetterSheet(width, d, e, f) ==
    [cols |-> [j \in 1..width |-> CharAt(UpperAlpha, j)],
     rows |-> LetterRows(width, d, e, f)]

\* the sheet of test_extract_monthly_series_standard: columns A, D, E, F only
NarrowSheet(d, e, f) ==
    [cols |-> <<"A", "D", "E", "F">>,
     rows |-> << <<T("Product"), B, B, B>>,
                 <<T("MCT360"), d, e, f>>,
                 <<T("Other"), I(100), I(100), I(100)>> >>]

\* a sheet whose headers name the months
NamedSheet(d, e, f) ==
    [cols |-> <<"Product", "Apr", "May ", "06">>,
     rows |-> << <<T("MCT360"), d, e, f>>,
                 <<T("Other"), I(100), I(100), I(100)>> >>]

ExtractorSheets ==
    {LetterSheet(width, d, e, f) :
        width \in LetterWidths, d \in SeriesCells, e \in SeriesCells, f \in SeriesCells}
    \cup {NarrowSheet(d, e, f) : d \in SeriesCells, e \in SeriesCells, f \in SeriesCells}
    \cup {NamedSheet(d, e, f) : d \in SeriesCells, e \in SeriesCells, f \in SeriesCells}

\* the month labels normalize_month_name is given
MonthLabels ==
    {FISCAL_MONTHS[i] : i \in 1..12}
    \cup {IntStr(n) : n \in 0..13}
    \cup {"0" \o IntStr(n) : n \in 0..9}
    \cup {"Apr", "APRIL", "Apr ", " apr", "Sept.", "sept", "4#", "010", "4.0",
          "invalid", "", "mayday"}

\* the values normalize_numeric_value is given
NumericInputs ==
    {None, B, T(""), T("-"), T(" "), T("720.5"), T("$720.50"), T("1,234.56"),
     T("(500)"), T("( 5 )"), T("-5"), T("abc"), T("12a"), T("1.2.3"),
     F(7205, 1), I(720), I(-3), I(0),
     NonFinite(NaN), NonFinite(PosInf), NonFinite(NegInf),
     T("inf"), T("-Infinity"), T("nan")}

InitExtractor ==
    /\ \/ fnCall \in {[fn |-> "extract_monthly_series", sheet |-> sheet,
                       product_code |-> product_code] :
                         sheet \in ExtractorSheets,
                         product_code \in {"MCT360", "mct360 ", "MCT165"}}
       \/ fnCall \in {[fn |-> "normalize_month_name", value |-> value] :
                         value \in MonthLabels}
       \/ fnCall \in {[fn |-> "normalize_numeric_value", value |-> value] :
                         value \in NumericInputs}
    /\ fnOut = None
    /\ nzFrame = None /\ nzOut = None
    /\ fcIn = <<>> /\ fcTie = <<>> /\ fcOut = None
    /\ rgSheet = None /\ rgOut = None
    /\ WebIdle

ExtractSeries ==
    /\ fnCall.fn = "extract_monthly_series" /\ fnOut = None
    /\ fnOut' = Returns(ExtractMonthlySeries(fnCall.sheet, fnCall.product_code))
    /\ UNCHANGED <<nzFrame, nzOut, fcIn, fcTie, fcOut, rgSheet, rgOut, fnCall, webVars>>

NormalizeMonth ==
    /\ fnCall.fn = "normalize_month_name" /\ fnOut = None
    /\ fnOut' = Returns(NormalizeMonthName(fnCall.value))
    /\ UNCHANGED <<nzFrame, nzOut, fcIn, fcTie, fcOut, rgSheet, rgOut, fnCall, webVars>>

NormalizeNumeric ==
    /\ fnCall.fn = "normalize_numeric_value" /\ fnOut = None
    /\ fnOut' = Returns(NormalizeNumericValue(fnCall.value))
    /\ UNCHANGED <<nzFrame, nzOut, fcIn, fcTie, fcOut, rgSheet, rgOut, fnCall, webVars>>

NextExtractor ==
    \/ ExtractSeries
    \/ NormalizeMonth
    \/ NormalizeNumeric

SpecExtractor == InitExtractor /\ [][NextExtractor]_vars

SeriesExtracted ==
    /\ fnCall # None /\ fnOut # None
    /\ fnCall.fn = "extract_monthly_series"

\* the columns are labelled by letter
LetterLabelled(sheet) ==
    \A j \in 1..NCols(sheet) : Len(sheet.cols[j]) = 1 /\ IndexIn(sheet.cols[j], UpperAlpha) > 0

\* the cell of the first row of the product under the column labelled letter
UnderLetter(sheet, letter) ==
    sheet.rows[CHOOSE i \in 1..NRows(sheet) : sheet.rows[i][1] = T("MCT360")]
              [CHOOSE j \in 1..NCols(sheet) : sheet.cols[j] = letter]

\* C18: for a sheet whose columns are labelled by letter and whose product
\* row holds numeric values under D, E and F and under no other month
\* column, the narrow sheet with only the columns A, D, E, F included,
\* extract_monthly_series returns an ordered mapping in which April, May and
\* June equal those values, in that order.
C18_AprilMayJuneByLetter ==
    (SeriesExtracted /\ LetterLabelled(fnCall.sheet) /\ fnCall.product_code = "MCT360")
    => /\ fnOut.status = "ok"
       /\ Len(fnOut.value) = 3
       /\ \A k \in 1..3 :
             /\ fnOut.value[k].month = FISCAL_MONTHS[k]
             /\ ValEq(fnOut.value[k].value,
                      Val(UnderLetter(fnCall.sheet, MONTH_COLUMNS[k])))

MonthNormalized ==
    /\ fnCall # None /\ fnOut # None
    /\ fnCall.fn = "normalize_month_name"

\* C19: normalize_month_name returns each of the twelve canonical month
\* names unchanged, and so each of its own outputs; maps 'Apr', 'APRIL',
\* 'Apr ', '04' and '4' to 'April'; maps every calendar month number 1..12,
\* padded or not, to that calendar month; and returns None ("" here) for
\* 'invalid'.
C19_MonthNameNormalForm ==
    MonthNormalized =>
        /\ fnOut.status = "ok"
        /\ (\E i \in 1..12 : fnCall.value = FISCAL_MONTHS[i])
              => fnOut.value = fnCall.value
        /\ fnOut.value # "" => /\ \E i \in 1..12 : fnOut.value = FISCAL_MONTHS[i]
                                /\ NormalizeMonthName(fnOut.value) = fnOut.value
        /\ fnCall.value \in {"Apr", "APRIL", "Apr ", "04", "4"} => fnOut.value = "April"
        /\ \A n \in 1..12 :
              (fnCall.value = IntStr(n) \/ (n < 10 /\ fnCall.value = "0" \o IntStr(n)))
                  => fnOut.value = MONTH_NAMES[n]
        /\ fnCall.value = "invalid" => fnOut.value = ""

\* an abbreviation in capitals with a trailing space was given
C19_TrailingSpaceWitness ==
    /\ MonthNormalized
    /\ fnCall.value = "Apr "
    /\ fnOut.value = "April"

NumericNormalized ==
    /\ fnCall # None /\ fnOut # None
    /\ fnCall.fn = "normalize_numeric_value"

\* C20: normalize_numeric_value returns the parsed float for numeric text
\* after removing currency signs and thousands commas, negates a value
\* wrapped in parentheses, passes a finite number through as float, and
\* returns None, never NaN or infinity, for None, the empty string, a lone
\* '-', unparseable text, and NaN or infinite numeric input.
C20_FloatOrNoneNeverInfinite ==
    NumericNormalized =>
        /\ fnOut.status = "ok"
        /\ fnOut.value # None => IsFinite(fnOut.value)
        /\ fnCall.value \in {None, B, T(""), T("-"), T("abc"), T("12a"), T("1.2.3"),
                             NonFinite(NaN), NonFinite(PosInf), NonFinite(NegInf)}
              => fnOut.value = None
        /\ fnCall.value \in {T("720.5"), T("$720.50"), F(7205, 1)}
              => fnOut.value # None /\ ValEq(fnOut.value, Val(F(7205, 1)))
        /\ fnCall.value = T("1,234.56")
              => fnOut.value # None /\ ValEq(fnOut.value, Val(F(123456, 2)))
        /\ fnCall.value = T("(500)")
              => fnOut.value # None /\ ValEq(fnOut.value, ValInt(-500))
        /\ (fnCall.value # None /\ IsNum(fnCall.value))
              => fnOut.value # None /\ ValEq(fnOut.value, Val(fnCall.value))

(***************************************************************************)
(* The four copies of normalize_month_name.  The month sign is written "#".*)
(***************************************************************************)
\* strict_excel_extractor.py, normalize_month_name of a str: the month, ""
\* for None
StrictMonthName(value) ==
    Only({MonthNameOfKey(Strip(RemoveChar(DropMonthSign(text), "."))) :
          text \in {Lower(Strip(value))}})

\* comprehensive_extractor.py, normalize_month_name of a cell: its table and
\* its lines are those of the universal extractor's copy
ComprehensiveMonthName(c, as_float) ==
    IF IsBlank(c) THEN ""
    ELSE Only({IF Contains(text, "#") /\ MonthOfSignedText(text) # ""
               THEN MonthOfSignedText(text)
               ELSE MonthOfPlainText(text) :
               text \in {Strip(CellStr(c, as_float))}})

(***************************************************************************)
(* SpecMonths: the month normalizers applied to month labels               *)
(***************************************************************************)
\* the label '<n>' followed by the month sign
SignedLabel(n) == IntStr(n) \o "#"

MonthCopies == {"excel_extractor", "strict", "universal", "comprehensive"}

\* the labels the copies are given
CopyLabels ==
    {SignedLabel(n) : n \in 0..13}
    \cup {"0" \o SignedLabel(n) : n \in 1..9}
    \cup {IntStr(n) : n \in 1..12}
    \cup {"Apr", "APRIL", "Apr ", "Sept.", "jan.", "04", "#", "x#", "invalid", ""}

InitMonths ==
    /\ fnCall \in {[fn |-> "normalize_month_name", copy |-> copy, value |-> value] :
                      copy \in MonthCopies, value \in CopyLabels}
    /\ fnOut = None
    /\ nzFrame = None /\ nzOut = None
    /\ fcIn = <<>> /\ fcTie = <<>> /\ fcOut = None
    /\ rgSheet = None /\ rgOut = None
    /\ WebIdle

MonthOfExcelExtractor ==
    /\ fnCall.fn = "normalize_month_name" /\ fnCall.copy = "excel_extractor"
    /\ fnOut = None
    /\ fnOut' = Returns(NormalizeMonthName(fnCall.value))
    /\ UNCHANGED <<nzFrame, nzOut, fcIn, fcTie, fcOut, rgSheet, rgOut, fnCall, webVars>>

MonthOfStrict ==
    /\ fnCall.fn = "normalize_month_name" /\ fnCall.copy = "strict"
    /\ fnOut = None
    /\ fnOut' = Returns(StrictMonthName(fnCall.value))
    /\ UNCHANGED <<nzFrame, nzOut, fcIn, fcTie, fcOut, rgSheet, rgOut, fnCall, webVars>>

MonthOfUniversal ==
    /\ fnCall.fn = "normalize_month_name" /\ fnCall.copy = "universal"
    /\ fnOut = None
    /\ fnOut' = Returns(UniversalMonthName(T(fnCall.value), FALSE))
    /\ UNCHANGED <<nzFrame, nzOut, fcIn, fcTie, fcOut, rgSheet, rgOut, fnCall, webVars>>

MonthOfComprehensive ==
    /\ fnCall.fn = "normalize_month_name" /\ fnCall.copy = "comprehensive"
    /\ fnOut = None
    /\ fnOut' = Returns(ComprehensiveMonthName(T(fnCall.value), FALSE))
    /\ UNCHANGED <<nzFrame, nzOut, fcIn, fcTie, fcOut, rgSheet, rgOut, fnCall, webVars>>

NextMonths ==
    \/ MonthOfExcelExtractor
    \/ MonthOfStrict
    \/ MonthOfUniversal
    \/ MonthOfComprehensive

SpecMonths == InitMonths /\ [][NextMonths]_vars

MonthNamed ==
    /\ fnCall # None /\ fnOut # None
    /\ fnCall.fn = "normalize_month_name"

\* C21: every copy of the month normalizer maps the label '<n>' with the
\* month sign to the n-th calendar month for every n in 1..12, so that all
\* copies agree with each other on these twelve labels.
C21_SignedLabelsInEveryCopy ==
    MonthNamed =>
        \A n \in 1..12 :
            fnCall.value = SignedLabel(n)
                => /\ fnOut.value = MONTH_NAMES[n]
                   /\ fnOut.value = NormalizeMonthName(fnCall.value)
                   /\ fnOut.value = StrictMonthName(fnCall.value)
                   /\ fnOut.value = UniversalMonthName(T(fnCall.value), FALSE)
                   /\ fnOut.value = ComprehensiveMonthName(T(fnCall.value), FALSE)

(***************************************************************************)
(* C22: the single forward pass of the standard strategy                   *)
(***************************************************************************)
\* the strategy of lines 288-351 was used: a separator row was found
StandardUsed(sheet) == SeparatorRow(SheetGrid(sheet)) # -1

\* the rows that carry the tag of code k
TaggedRows(regions, k) == {j \in DOMAIN regions : regions[j] = ExpectedTag[k]}

\* the codes that got a region
CodesTagged(regions) == {k \in 1..Len(INGREDIENTS) : TaggedRows(regions, k) # {}}

\* code sheet.order[p], whose only marker is the p-th, lies above the match
\* of a code listed before it
AboveEarlierMatch(sheet, regions, p) ==
    \E c \in CodesTagged(regions) :
        /\ c < sheet.order[p]
        /\ MarkerAt(sheet, p) < MinOf(TaggedRows(regions, c))

\* C22: in the standard strategy the codes are searched in their fixed
\* order, each search starting at the row after the previous match: the
\* start rows of the regions are strictly increasing in that code order, and
\* a code whose only marker lies above the match of an earlier-listed code
\* gets no region.
C22_SingleForwardPass ==
    (rgOut # None /\ StandardUsed(rgSheet)) =>
        /\ \A c, d \in CodesTagged(rgOut.regions) :
              c < d => MinOf(TaggedRows(rgOut.regions, c))
                          < MinOf(TaggedRows(rgOut.regions, d))
        /\ \A p \in 1..Len(rgSheet.order) :
              AboveEarlierMatch(rgSheet, rgOut.regions, p)
                  => rgSheet.order[p] \notin CodesTagged(rgOut.regions)

\* MCT165 is marked above MCT360: MCT360 is matched and MCT165 gets no region
C22_MarkerAboveWitness ==
    /\ rgOut # None /\ StandardUsed(rgSheet)
    /\ rgSheet.order = <<2, 1>>
    /\ CodesTagged(rgOut.regions) = {1}
    /\ AboveEarlierMatch(rgSheet, rgOut.regions, 1)

(***************************************************************************)
(* SpecSetTypes: the set types the index view gives the rows of the        *)
(* ingredient blocks (views.py:97-126)                                     *)
(***************************************************************************)
MaxBlock == 23

\* a classified row of the block of ing; a row that is not filled holds ""
\* from column C on
BlockRow(ing, filled, i) ==
    [k \in {"A", "C", "D", "E", "F", "region", "original_row"} |->
        IF k = "region" THEN T("ingredient_" \o ing)
        ELSE IF k = "original_row" THEN I(i)
        ELSE IF k = "A" THEN T("x")
        ELSE IF k = "C" /\ filled THEN I(1)
        ELSE T("")]

\* the rows of a block of n rows of which the one at gap (if any) and the
\* last trailing ones are not filled
BlockData(ing, n, gap, trailing) ==
    [i \in 1..n |-> BlockRow(ing, i # gap /\ i <= n - trailing, i)]

\* the classified rows of a sheet with a block of MCT360 and one of MCT165
SetTypeData ==
    {BlockData("mct360", n, gap, trailing) \o BlockData("mct165", m, 0, 0) :
        n \in 0..MaxBlock, gap \in {0, 2}, trailing \in {0, 1, 3}, m \in {0, 12}}

InitSetTypes ==
    /\ fnCall \in {[fn |-> "index", data |-> data] : data \in SetTypeData}
    /\ fnOut = None
    /\ nzFrame = None /\ nzOut = None
    /\ fcIn = <<>> /\ fcTie = <<>> /\ fcOut = None
    /\ rgSheet = None /\ rgOut = None
    /\ WebIdle

\* lines 97-126 of the index view
TagIngredientRows ==
    /\ fnCall.fn = "index" /\ fnOut = None
    /\ fnOut' = Returns(IndexIngredientList(fnCall.data))
    /\ UNCHANGED <<nzFrame, nzOut, fcIn, fcTie, fcOut, rgSheet, rgOut, fnCall, webVars>>

NextSetTypes == TagIngredientRows

SpecSetTypes == InitSetTypes /\ [][NextSetTypes]_vars

RowsTagged ==
    /\ fnCall # None /\ fnOut # None
    /\ fnCall.fn = "index"

\* the set type of the row with 0-based index i
SetTypeAt(rows, i) == rows[i + 1]["set_type"].s

\* every row carries one of the four set types
OneTagEach(rows) ==
    \A i \in 0..(Len(rows) - 1) :
        /\ "set_type" \in DOMAIN rows[i + 1]
        /\ SetTypeAt(rows, i) \in {"header", "previous", "current", "separator"}

\* C23 as stated: within every ingredient block, after its trailing empty
\* rows are removed, row 0 is tagged 'header', rows 1 to 10 'previous' and
\* the last 10 rows 'current', whatever the length of the block, and each
\* row gets exactly one set-type tag.
C23_HeaderPreviousLastTenCurrent ==
    RowsTagged =>
        \A b \in 1..Len(fnOut.value) :
            \E rows \in {fnOut.value[b].rows} :
                /\ OneTagEach(rows)
                /\ \A i \in 0..(Len(rows) - 1) :
                      /\ i = 0 => SetTypeAt(rows, i) = "header"
                      /\ (1 <= i /\ i <= 10) => SetTypeAt(rows, i) = "previous"
                      /\ i >= Len(rows) - 10 => SetTypeAt(rows, i) = "current"

\* C23 amended: row 0 is tagged 'header', rows 1 to 10 'previous', and of the
\* last 10 rows those beyond row 10 'current' (all ten when the block has at
\* least 21 rows); a row in between is tagged 'separator'; each row gets
\* exactly one set-type tag.
C23_LastTenBeyondRowTenCurrent ==
    RowsTagged =>
        \A b \in 1..Len(fnOut.value) :
            \E rows \in {fnOut.value[b].rows} :
                /\ OneTagEach(rows)
                /\ \A i \in 0..(Len(rows) - 1) :
                      SetTypeAt(rows, i) =
                          (IF i = 0 THEN "header"
                           ELSE IF i <= 10 THEN "previous"
                           ELSE IF i >= Len(rows) - 10 THEN "current"
                           ELSE "separator")
                /\ Len(rows) >= 21 =>
                      \A i \in (Len(rows) - 10)..(Len(rows) - 1) :
                          SetTypeAt(rows, i) = "current"

\* a block of 15 rows was tagged after its trailing empty row was removed:
\* rows 5 to 10 are among its last ten and are tagged 'previous'
C23_ShortBlockWitness ==
    /\ RowsTagged
    /\ Len(fnCall.data) = 16
    /\ Len(fnOut.value[1].rows) = 15
    /\ \A i \in 5..10 : SetTypeAt(fnOut.value[1].rows, i) = "previous"
    /\ \A i \in 11..14 : SetTypeAt(fnOut.value[1].rows, i) = "current"

(***************************************************************************)
(* C24: the three stored numbers of a forecast record                      *)
(***************************************************************************)
\* the product of the two stored factors of record r (hundredths times
\* ten-thousandths), rounded to 2 places
StoredProduct(r) ==
    [n |-> RoundTo([n |-> r.ForecastDemand.n * r.PerUnitConsumption.n, d |-> 10000], 0),
     d |-> 100]

\* the stored factors of r are the values they were rounded from
StoredExactly(r) ==
    /\ ValEq(r.ForecastDemand, ExpectedForecast(r.Product))
    /\ ValEq(r.PerUnitConsumption, ExpectedPerUnit(r.Product))

\* C24 as stated: in every forecast record the stored Raw Material Needed
\* equals the stored Forecast Demand (2 decimals) times the stored Per Unit
\* Consumption (4 decimals), rounded to 2 decimals.
C24_RawMaterialOfStoredFactors ==
    (fcOut # None /\ fcOut.status = "ok") =>
        \A i \in 1..Len(fcOut.forecast_table) :
            fcOut.forecast_table[i].RawMaterialNeeded
                = StoredProduct(fcOut.forecast_table[i])

\* C24 amended: in every forecast record the stored Raw Material Needed is
\* the forecast demand times the per-unit consumption, both as they are
\* before being rounded for storage, rounded to 2 decimals; it equals the
\* rounded product of the stored factors whenever these are exact.
C24_RawMaterialOfUnroundedFactors ==
    (fcOut # None /\ fcOut.status = "ok") =>
        \A i \in 1..Len(fcOut.forecast_table) :
            \E r \in {fcOut.forecast_table[i]} :
                /\ r.RawMaterialNeeded =
                       [n |-> RoundTo(ValMul(ExpectedForecast(r.Product),
                                             ExpectedPerUnit(r.Product)), 2),
                        d |-> 100]
                /\ StoredExactly(r) => r.RawMaterialNeeded = StoredProduct(r)

\* a record whose forecast demand lost digits when stored, and whose raw
\* material is not the rounded product of the stored factors
C24_RoundedFactorWitness ==
    /\ fcOut # None /\ fcOut.status = "ok"
    /\ \E i \in 1..Len(fcOut.forecast_table) :
          \E r \in {fcOut.forecast_table[i]} :
              /\ ~StoredExactly(r)
              /\ r.RawMaterialNeeded # StoredProduct(r)


(***************************************************************************)
(* SpecColumns: detect_month_columns of the strict and of the              *)
(* comprehensive extractor on sheets read with header=None                 *)
(***************************************************************************)
\* strict_excel_extractor.py, normalize_month_name of a cell: "" for None
StrictCellMonth(c, as_float) ==
    IF IsBlank(c) THEN "" ELSE StrictMonthName(CellStr(c, as_float))

\* lines 191-196: the month each cell of the first 5 rows and 30 columns names
StrictHeaderGrid(df) ==
    Only({[r \in 1..Min2(5, Len(df)) |->
              [c \in 1..Min2(30, GridWidth(df)) |->
                  StrictCellMonth(df[r][c], ColAsFloat(frame, c))]] :
          frame \in {HeaderlessFrame(df)}})

\* detect_month_columns(df) of strict_excel_extractor.py: the positions D..O
\* first, then the first header cell of each month that has no column yet
StrictMonthColumns(df) ==
    Only({Only({[month_name \in DOMAIN fixed \cup found |->
                    IF month_name \in DOMAIN fixed THEN fixed[month_name]
                    ELSE FirstColumnOf(month_grid, month_name)] :
                found \in {{month_grid[r][c] :
                               r \in DOMAIN month_grid,
                               c \in 1..Min2(30, GridWidth(df))} \ {""}}}) :
          fixed \in {StandardMonthColumns(df)}, month_grid \in {StrictHeaderGrid(df)}})

\* a header row: 'Product', then blanks up to column first, then count month
\* labels from the label list, then blanks up to the width
HeaderCells(labels, first, count, width) ==
    [j \in 1..width |->
        IF j = 1 THEN T("Product")
        ELSE IF j - 1 >= first /\ j - 1 < first + count THEN T(labels[j - first])
        ELSE B]

\* a data row of one product with a number under every column but the first
DataCells(width) == [j \in 1..width |-> IF j = 1 THEN T("10A") ELSE I(j)]

CalendarLabels ==
    <<"Jan", "Feb", "Mar", "Apr", "May", "Jun", "Jul", "Aug", "Sep", "Oct", "Nov", "Dec">>

FiscalLabels ==
    <<"April", "May", "June", "July", "August", "September", "October", "November",
      "December", "January", "February", "March">>

\* the sheets: a title row or none, a header row of 2, 3 or 12 months that
\* begins in column B, C, D or E, cut at the width of the sheet, and one
\* data row
ColumnSheets ==
    {(IF title THEN <<[j \in 1..width |-> IF j = 1 THEN T("Report") ELSE B]>> ELSE <<>>)
        \o <<HeaderCells(labels, first, count, width), DataCells(width)>> :
     title \in BOOLEAN, labels \in {CalendarLabels, FiscalLabels},
     first \in 1..4, count \in {2, 3, 12}, width \in {8, 17}}

InitColumns ==
    /\ fnCall \in {[fn |-> "detect_month_columns", copy |-> copy, df |-> df] :
                      copy \in {"strict", "comprehensive"}, df \in ColumnSheets}
    /\ fnOut = None
    /\ nzFrame = None /\ nzOut = None
    /\ fcIn = <<>> /\ fcTie = <<>> /\ fcOut = None
    /\ rgSheet = None /\ rgOut = None
    /\ WebIdle

ColumnsOfStrict ==
    /\ fnCall.fn = "detect_month_columns" /\ fnCall.copy = "strict"
    /\ fnOut = None
    /\ fnOut' = Returns(StrictMonthColumns(fnCall.df))
    /\ UNCHANGED <<nzFrame, nzOut, fcIn, fcTie, fcOut, rgSheet, rgOut, fnCall, webVars>>

\* lines 261-264 of extract_all_sheets_data: the header row, then the columns
ColumnsOfComprehensive ==
    /\ fnCall.fn = "detect_month_columns" /\ fnCall.copy = "comprehensive"
    /\ fnOut = None
    /\ fnOut' = Returns(ComprehensiveMonthColumns(fnCall.df,
                                                  ComprehensiveHeaderRow(fnCall.df)))
    /\ UNCHANGED <<nzFrame, nzOut, fcIn, fcTie, fcOut, rgSheet, rgOut, fnCall, webVars>>

NextColumns ==
    \/ ColumnsOfStrict
    \/ ColumnsOfComprehensive

SpecColumns == InitColumns /\ [][NextColumns]_vars

ColumnsDetected ==
    /\ fnCall # None /\ fnOut # None
    /\ fnCall.fn = "detect_month_columns"

\* the months a row of the sheet names, each with the last column naming it
HeaderOf(df) == HeaderRowColumns(df, ComprehensiveHeaderRow(df))

\* C25: for a sheet with a header row the strict extractor's month-column
\* detection gives the mapping of the comprehensive extractor's: each month
\* the header names is read from the column the header labels, and the fixed
\* D..O mapping is used only when the header yields no month.
C25_StrictColumnsAsComprehensive ==
    (ColumnsDetected /\ ComprehensiveHeaderRow(fnCall.df) # -1)
        => /\ fnOut.value = ComprehensiveMonthColumns(fnCall.df,
                                ComprehensiveHeaderRow(fnCall.df))
           /\ fnOut.value = HeaderOf(fnCall.df)


(***************************************************************************)
(* SpecRecords: the web application with every route of urls.py            *)
(***************************************************************************)
\* index without a workbook: the page is rendered, nothing is stored
IndexPage ==
    /\ CanStart
    /\ reqs' = Append(reqs, Answer(Request("index", "GET", "", ""), 200, "", "", None))
    /\ UNCHANGED <<pureVars, uploads, snapshots, processed, finals, charts, clock, stamp>>

\* upload_excel, lines 434-436 and 451: a POST with a workbook saves the
\* upload; anything else is answered 400
UploadExcel(book) ==
    /\ CanStart
    /\ IF book = ""
       THEN /\ reqs' = Append(reqs, Answer(Request("upload", "POST", "", book),
                                          400, "", "request", None))
            /\ UNCHANGED <<uploads, stamp>>
       ELSE /\ uploads' = Append(uploads, [book |-> book, mtime |-> stamp])
            /\ stamp' = stamp + 1
            /\ reqs' = Append(reqs, [Request("upload", "POST", "", book) EXCEPT
                                        !.upload = Len(uploads) + 1, !.pc = "filter"])
    /\ UNCHANGED <<pureVars, snapshots, processed, finals, charts, clock>>

\* an upload_excel that stores the rows of the sheet and the filtered rows
UploadStoreTwice(r) ==
    /\ reqs[r].route = "upload" /\ reqs[r].pc = "filter"
    /\ snapshots' = snapshots \o <<[original_file |-> reqs[r].upload, data |-> "index"],
                                    [original_file |-> reqs[r].upload, data |-> "upload"]>>
    /\ reqs' = [reqs EXCEPT ![r] = Answer(@, 200, "", "", [id |-> @.upload])]
    /\ UNCHANGED <<pureVars, uploads, processed, finals, charts, clock, stamp>>

\* upload_excel, lines 438-450: the sheet is read and filtered, its rows are
\* stored and the id of the upload is returned
UploadStore(r) ==
    /\ reqs[r].route = "upload" /\ reqs[r].pc = "filter"
    /\ snapshots' = Append(snapshots, [original_file |-> reqs[r].upload, data |-> "upload"])
    /\ reqs' = [reqs EXCEPT ![r] = Answer(@, 200, "", "", [id |-> @.upload])]
    /\ UNCHANGED <<pureVars, uploads, processed, finals, charts, clock, stamp>>

\* download_processed: ProcessedData.objects.get(original_file_id=file_id)
\* raises DoesNotExist for no row, which is answered 404, and
\* MultipleObjectsReturned for more than one, which no handler catches
DownloadProcessed(file_id) ==
    /\ CanStart
    /\ reqs' = Append(reqs,
          Only({IF SnapshotsOf(original_file_id) = {}
                THEN Answer(req, 404, "DoesNotExist", "lookup", None)
                ELSE IF Cardinality(SnapshotsOf(original_file_id)) > 1
                THEN Answer(req, 500, "MultipleObjectsReturned", "lookup", None)
                ELSE Answer(req, 200, "", "",
                            [name |-> "processed_" \o file_id \o ".xlsx",
                             row |-> MinOf(SnapshotsOf(original_file_id))]) :
                req \in {Request("download", "GET", file_id, "")},
                original_file_id \in {IntOfDigits(file_id)}}))
    /\ UNCHANGED <<pureVars, uploads, snapshots, processed, finals, charts, clock, stamp>>

\* strict_extract_excel, lines 874-880: the chart data of the universal
\* extractor's result for the workbook
StrictChartBooks ==
    [k \in 1..Len(Books) |-> BuildChartData(UniversalExtract(<<BookGrids[k]>>))]

\* strict_extract_excel: the products and the overall series (the summary is
\* computed from them), 404 for an unknown id and 500 for any exception
StrictExtract(file_id) ==
    /\ CanStart
    /\ reqs' = Append(reqs,
          Only({IF UploadOf(file_id) = 0
                THEN Answer(req, 404, "DoesNotExist", "lookup", None)
                ELSE Only({IF chart_data.status # "ok"
                           THEN Answer(req, 500, chart_data.status, "extract", None)
                           ELSE Answer(req, 200, "", "",
                                       [products |-> chart_data.value.products,
                                        overall |-> chart_data.value.overall]) :
                           chart_data \in {StrictChartBooks[
                               BookNumber(uploads[UploadOf(file_id)].book)]}}) :
                req \in {Request("strict_extract", "GET", file_id, "")}}))
    /\ UNCHANGED <<pureVars, uploads, snapshots, processed, finals, charts, clock, stamp>>

NextRecords ==
    \/ Next
    \/ IndexPage
    \/ \E book \in BookSet \cup {""} : UploadExcel(book)
    \/ \E r \in 1..Len(reqs) : UploadStore(r)
    \/ \E file_id \in {"1", "2"} : DownloadProcessed(file_id)
    \/ \E file_id \in {"1", "2"} : StrictExtract(file_id)

SpecRecords == Init /\ [][NextRecords]_vars

\* every upload has at most one ProcessedData row, each row belongs to an
\* upload, and no lookup met more than one row
AtMostOneSnapshot ==
    /\ \A upload \in 1..Len(uploads) : Cardinality(SnapshotsOf(upload)) <= 1
    /\ \A k \in DOMAIN snapshots : snapshots[k].original_file \in 1..Len(uploads)
    /\ \A r \in 1..Len(reqs) : reqs[r].error # "MultipleObjectsReturned"

\* a step leaves every row of the two tables as it was
RecordsKept ==
    /\ Len(uploads') >= Len(uploads)
    /\ SubSeq(uploads', 1, Len(uploads)) = uploads
    /\ Len(snapshots') >= Len(snapshots)
    /\ SubSeq(snapshots', 1, Len(snapshots)) = snapshots

\* C26: after any sequence of requests to the routes, every UploadedExcelFile
\* row has at most one ProcessedData row and no existing row is modified or
\* deleted, so the lookup of download_processed never meets more than one
\* row.
C26_OneSnapshotRecordsKept == []AtMostOneSnapshot /\ [][RecordsKept]_vars

\* the rows of an index upload and of an /upload/ request are stored and a
\* download of one of them was answered with its row
C26_DownloadWitness ==
    /\ \E j, k \in DOMAIN snapshots : snapshots[j].data = "index" /\ snapshots[k].data = "upload"
    /\ \E r \in 1..Len(reqs) :
          reqs[r].route = "download" /\ reqs[r].status = 200


(***************************************************************************)
(* C27: the files a failed /process-all/ request leaves                    *)
(***************************************************************************)
\* a /process-all/ request answered with an error
FailedProcessAll(r) ==
    /\ reqs[r].route = "process_all" /\ reqs[r].pc = "done"
    /\ reqs[r].status \in {400, 404, 500}

\* C27: a /process-all/ request answered with an error (400, 404 or 500)
\* leaves no processed_<id>_* and no final_output_* file it wrote, so
\* /download-final/<id>/ serves no workbook without the Workflow 4 sheet that
\* such a request left.
C27_FailedRequestLeavesNoFile ==
    \A r \in 1..Len(reqs) :
        FailedProcessAll(r) =>
            /\ \A t \in DOMAIN finals : finals[t] # r
            /\ reqs[r].timestamp # -1 => OutputOf(reqs[r]) \notin DOMAIN processed


(***************************************************************************)
(* C28: the overall series against the series of the products              *)
(***************************************************************************)
\* the products of a result that have a value for the month
ProductsWith(result, month_name) ==
    {code \in DOMAIN result.products :
        month_name \in DOMAIN result.products[code].historical}

\* the members of a set in some order
SomeOrder(S) ==
    CHOOSE order \in [1..Cardinality(S) -> S] :
        \A j, k \in 1..Cardinality(S) : j # k => order[j] # order[k]

\* the sum over the products of their value for the month
SumOfProducts(result, month_name) ==
    Only({FloatSum([k \in 1..Len(order) |->
                       result.products[order[k]].historical[month_name]]) :
          order \in {SomeOrder(ProductsWith(result, month_name))}})

\* the same float: the same number, or the same value that is not finite
SameFloat(x, y) == IF IsFinite(x) /\ IsFinite(y) THEN ValEq(x, y) ELSE x = y

\* C28: in the result of extract(), for every month m the value
\* overall.historical[m] is the sum over all products p of
\* products[p].historical[m], also when the same product is found in more
\* than one sheet.
C28_OverallIsSumOfProducts ==
    Extracted =>
        \A i \in 1..12 :
            \E month_name \in {FISCAL_MONTHS[i]} :
                /\ month_name \in DOMAIN fnOut.overall.historical
                      <=> ProductsWith(fnOut, month_name) # {}
                /\ month_name \in DOMAIN fnOut.overall.historical
                      => SameFloat(fnOut.overall.historical[month_name],
                                   SumOfProducts(fnOut, month_name))


(***************************************************************************)
(* SpecBlocks: detect_product_blocks of the universal extractor on sheets  *)
(* of one column and two rows                                              *)
(***************************************************************************)
\* what a cell of the column holds
BlockCells ==
    {T("MCT360"), T("mct165 oil"), T("Product"), T("CT"), T("A1"), T("12-3"), T("10"),
     I(10), I(16), I(30), I(360), I(5), F(105, 1), B}

InitBlocks ==
    /\ fnCall \in {[fn |-> "detect_product_blocks", df |-> <<<<upper>>, <<lower>>>>] :
                      upper \in BlockCells, lower \in BlockCells}
    /\ fnOut = None
    /\ nzFrame = None /\ nzOut = None
    /\ fcIn = <<>> /\ fcTie = <<>> /\ fcOut = None
    /\ rgSheet = None /\ rgOut = None
    /\ WebIdle

DetectProductBlocks ==
    /\ fnCall.fn = "detect_product_blocks" /\ fnOut = None
    /\ fnOut' = Returns(UniversalProductBlocks(fnCall.df))
    /\ UNCHANGED <<nzFrame, nzOut, fcIn, fcTie, fcOut, rgSheet, rgOut, fnCall, webVars>>

NextBlocks == DetectProductBlocks

SpecBlocks == InitBlocks /\ [][NextBlocks]_vars

BlocksDetected ==
    /\ fnCall # None /\ fnOut # None
    /\ fnCall.fn = "detect_product_blocks"

HasLetter(text) ==
    \E i \in 1..Len(text) : IndexIn(CharAt(text, i), UpperAlpha \o LowerAlpha) > 0

\* C29: detect_product_blocks registers a cell under a known code only when
\* the text of the cell contains that code, and never registers a purely
\* numeric cell (10, 16, 30, 360) or a cell with no letter as a product.
C29_RegisteredCellNamesTheCode ==
    BlocksDetected =>
        \A code \in DOMAIN fnOut.value :
            \E cell \in {fnCall.df[fnOut.value[code] + 1][1]} :
                /\ IsText(cell)
                /\ HasLetter(cell.s)
                /\ Contains(Upper(Strip(cell.s)), code)


(***************************************************************************)
(* C30: the columns the long layout selects                                *)
(***************************************************************************)
\* lines 180-183: the columns selected for product, month, demand and
\* per-unit consumption, by position (0: not found)
SelectedColumns(frame) ==
    Only({[product |-> IF FindColumn(cols, PRODUCT_KEYS) # 0
                       THEN FindColumn(cols, PRODUCT_KEYS) ELSE 1,
           month |-> FindColumn(cols, MONTH_KEYS),
           demand |-> FindColumn(cols, DEMAND_KEYS),
           consumption |-> FindColumn(cols, CONSUMPTION_KEYS)] :
          cols \in {StrippedCols(frame)}})

\* the header names the per-unit consumption
NamesConsumption(header) == FindColumn(<<header>>, CONSUMPTION_KEYS) # 0

\* C30: when _normalize_input_dataframe takes the long-layout path, the
\* columns selected for product, month, demand and per-unit consumption are
\* four distinct columns of the input, and a header that names the per-unit
\* consumption ('Per Unit Consumption') is never the demand column, whatever
\* the column order; the rename then leaves all four targets in the frame.
C30_FourDistinctColumns ==
    (nzOut # None /\ InLongLayout(nzFrame)) =>
        \E selected \in {SelectedColumns(nzFrame)} :
            /\ Cardinality({selected.product, selected.month, selected.demand,
                            selected.consumption}) = 4
            /\ ~NamesConsumption(StrippedCols(nzFrame)[selected.demand])
            /\ nzOut.status # "KeyError"

====
